---- MODULE Spec2Model ----
(***************************************************************************)
(* bake: the Builder (concurrent execution of a build graph), the Build    *)
(* node and the Planner, modelled from builder.go, planner.go and the      *)
(* Package/Build definitions.                                              *)
(***************************************************************************)
EXTENDS Integers, Sequences, FiniteSets, TLC

(***************************************************************************)
(* Bounds.                                                                 *)
(***************************************************************************)
\* A build graph has at most MaxEdges dependency edges, so that a run has at
\* most MaxEdges + 1 goroutines.
MaxEdges == 4

\* The targets of a build graph have at most MaxCmds commands in total.
MaxCmds == 3

\* The targets of a package list at most MaxInputs inputs in total.
MaxInputs == 3

\* Planner.Plan is called with at most MaxRequests target names.
MaxRequests == 2

\* A build graph whose commands write files has at most MaxWriterEdges
\* dependency edges.
MaxWriterEdges == 3

\* The files of the project root and the targets are changed at most
\* MaxChanges times.
MaxChanges == 1

\* The process of a command writes at most MaxBytes bytes to each of its
\* output streams.
MaxBytes == 2

\* A package whose targets are looked up has at most MaxTargets targets.
MaxTargets == 2

\* A build graph whose run is followed to its end has at most MaxFairEdges
\* dependency edges.
MaxFairEdges == 3

\* AddTarget is called at most MaxAdds times on a snapshot path.
MaxAdds == 3

\* A target that is hashed declares at most MaxDeps inputs.
MaxDeps == 1

\* An exec command of a target that is hashed has at most MaxArgs arguments.
MaxArgs == 2

\* A target that is hashed has at most MaxHashCmds commands.
MaxHashCmds == 1

\* A label has at most MaxLabelLen characters.
MaxLabelLen == 3

\* A FileSystem creates at most MaxRoots roots.
MaxRoots == 2

\* A FileSystem serves at most MaxReqs requests of its 9p connection.
MaxReqs == 4

(***************************************************************************)
(* Error values.                                                           *)
(***************************************************************************)
\* The nil error.
Nil == "nil"

ErrDependency == "ErrDependency"

ErrCanceled == "ErrCanceled"

\* The error returned by exec.Cmd.Run for a failing command.
CmdErr == "CmdErr"

\* An error returned by Snapshot.AddTarget.
SnapErr == "SnapErr"

Errs == {Nil, ErrDependency, ErrCanceled, CmdErr, SnapErr}

(***************************************************************************)
(* The build graph.                                                        *)
(***************************************************************************)
\* The builds of a graph; build 0 is the top-level build.
Nodes == {0, 1, 2, 3}

\* The top-level build: the only node without a target.
Top == 0

RECURSIVE SortedSeq(_)
\* The elements of a set of numbers in increasing order.
SortedSeq(S) ==
    IF S = {} THEN <<>>
    ELSE LET m == CHOOSE x \in S : \A y \in S : x <= y
         IN  <<m>> \o SortedSeq(S \ {m})

RECURSIVE Reach(_, _)
\* The nodes reachable from k (k included) in the graph g.
Reach(g, k) == {k} \cup UNION { Reach(g, g[k][i]) : i \in 1..Len(g[k]) }

RECURSIVE SumOver(_, _)
\* The sum of f over the set S.
SumOver(f, S) ==
    IF S = {} THEN 0
    ELSE LET x == CHOOSE x \in S : TRUE IN f[x] + SumOver(f, S \ {x})

\* Acyclic dependency lists: a node depends on higher-numbered nodes only,
\* the top-level build has at least one dependency, and the builds of the
\* graph of the top-level build are 0..m for some m; a node outside that
\* graph has no dependencies.
Graphs ==
    { g \in [Nodes -> {SortedSeq(S) : S \in SUBSET Nodes}] :
        /\ \A k \in Nodes : \A i \in 1..Len(g[k]) : g[k][i] > k
        /\ g[Top] # <<>>
        /\ \A k \in Nodes \ Reach(g, Top) : g[k] = <<>>
        /\ \A k \in Reach(g, Top) : \A j \in Nodes : j < k => j \in Reach(g, Top)
        /\ SumOver([k \in Nodes |-> Len(g[k])], Nodes) <= MaxEdges }

VARIABLES
    dependencies,   \* Build.dependencies of every node
    commands,       \* len(target.Commands) of every node's target
    builds,         \* Builder.builds: the reserved nodes
    closing,        \* Builder.closing is closed
    err,            \* Build.err of every node
    done,           \* how often Build.Done closed (or tried to close) done
    panicked,       \* the process died of a runtime panic
    pc,             \* position of every goroutine
    reserved,       \* what b.reserve returned to the goroutine
    n,              \* buildEach's counter n of the goroutine
    ci,             \* number of commands the goroutine has completed
    obs,            \* the err the parent read when it received the goroutine's build
    roots,          \* the tracking root the goroutine got from CreateRoot
    cmdlog,         \* per node: the commands started by Builder.run, with results and
                    \* the file each found when it read
    snaplog,        \* per node: the calls of Snapshot.AddTarget for its target
    pkg,            \* Planner.pkg.Targets
    requests,       \* the targets argument of Planner.Plan
    changeset,      \* the changeset argument of Planner.Plan
    plan,           \* what Planner.Plan returned: <<>> before it has, then <<result>>
    writes,         \* per node: the file the commands of its target write, 0 for none
    disk,           \* the files of the project root (Snapshot.root)
    thash,          \* per target: its current inputs and commands, which hashTarget hashes
    store,          \* per target: the file of its snapshot under Snapshot.path
    client,         \* the callers of Snapshot.AddTarget and how far each has got
    seen,           \* per target: the state that the last completed AddTarget found
    used,           \* how many changes of the project root and the targets there have been
    lastop,         \* the last operation on the snapshot, the project root or a target
    fsroots,        \* FileSystem.roots: the read and write set of every root, by id
    fids,           \* the Aux of every file handle of the 9p connection
    tree,           \* the entries of the served directory (FileSystem.path)
    lastreq,        \* the last request that was served, and how many there were
    proc,           \* the process of a command: its state and the bytes it has written
    ospipe,         \* per stream: the bytes in the pipe between the process and exec's copier
    copier,         \* per stream: the goroutine of exec that copies into the build's io.Pipe
    sink,           \* per stream: the bytes the consumer has read from the build's reader
    drain,          \* when the consumer reads Stdout()/Stderr()
    arg,            \* the arguments of a call of Package.Target or ParseLabel
    ret             \* what the call returned: <<>> before it has, then <<result>>

bvars == <<dependencies, commands, builds, closing, err, done, panicked,
           pc, reserved, n, ci, obs, roots, cmdlog, snaplog, writes>>

pvars == <<pkg, requests, changeset, plan>>

svars == <<disk, thash, store, client, seen, used, lastop>>

fvars == <<fsroots, fids, tree, lastreq>>

tvars == <<proc, ospipe, copier, sink, drain>>

hvars == <<arg, ret>>

vars == <<bvars, pvars, svars, fvars, tvars, hvars>>

(***************************************************************************)
(* Goroutines.  The goroutine that called Builder.Build is <<>>; the       *)
(* goroutine started by buildEach of goroutine w for its i-th dependency   *)
(* is Append(w, i).                                                        *)
(***************************************************************************)
Main == <<>>

RECURSIVE PathsFrom(_, _)
PathsFrom(g, k) ==
    {<<>>} \cup UNION { { <<i>> \o p : p \in PathsFrom(g, g[k][i]) } : i \in 1..Len(g[k]) }

RECURSIVE NodeAt(_, _, _)
\* The node reached from k along the dependency indexes of w.
NodeAt(g, k, w) ==
    IF w = <<>> THEN k ELSE NodeAt(g, g[k][Head(w)], Tail(w))

\* The goroutines a run can start: one per path from the top-level build.
Workers == DOMAIN pc

\* The build a goroutine was started for.
NodeOf(w) == NodeAt(dependencies, Top, w)

Children(w) == { Append(w, i) : i \in 1..Len(dependencies[NodeOf(w)]) }


(***************************************************************************)
(* Build (the node).                                                       *)
(***************************************************************************)
\* Every build, the top-level one included, taken to have a target.
HasTargetAlways(k) == TRUE

\* Build.Target: nil for the top-level build.
HasTarget(k) == k # Top

\* The done channel of the build is closed: Build.Wait returns.
Wait(k) == done[k] >= 1

\* Build.Err.
Err(k) == err[k]

\* Build.Done: stores the error, then closes the done channel; closing a
\* closed channel is a runtime panic.
Done(k, e) ==
    /\ err' = [err EXCEPT ![k] = e]
    /\ done' = [done EXCEPT ![k] = IF @ < 2 THEN @ + 1 ELSE @]
    /\ panicked' = (done[k] >= 1)

RECURSIVE RootErr(_)
RECURSIVE RootErrEach(_, _)
\* RootErr without the comparison against ErrCanceled.
RootErrNoCanceled(k) ==
    IF err[k] # Nil /\ err[k] # ErrDependency
    THEN err[k]
    ELSE RootErrEach(k, 1)

\* Build.RootErr: the build's own error unless it is one of the two
\* propagation errors, else the first RootErr of its dependencies.
RootErr(k) ==
    IF Err(k) # Nil /\ Err(k) # ErrDependency /\ Err(k) # ErrCanceled
    THEN Err(k)
    ELSE RootErrEach(k, 1)

\* The loop of RootErr over b.dependencies, from index i on.
RootErrEach(k, i) ==
    IF i > Len(dependencies[k]) THEN Nil
    ELSE IF RootErr(dependencies[k][i]) # Nil THEN RootErr(dependencies[k][i])
    ELSE RootErrEach(k, i + 1)

(***************************************************************************)
(* Snapshot: the files of the project root, the hashes and the store.      *)
(***************************************************************************)
\* os.IsNotExist(err): the error of os.Stat and os.Open for a missing name.
ErrNotExist == "not exist"

ErrSnapshotTargetNotFound == "snapshot target not found"

\* The error of proto.Unmarshal for a buffer that ends inside a field.
ErrUnexpectedEOF == "unexpected EOF"

\* A name of the project root that no file has.
NoFile == [kind |-> "none", mode |-> 0, mtime |-> 0, size |-> 0, content |-> 0, names |-> {}]

\* A regular file: mode, mtime, size and bytes (content).
RegularFile(mtime, size, content) ==
    [kind |-> "file", mode |-> 0, mtime |-> mtime, size |-> size, content |-> content, names |-> {}]

\* A directory with the given entry names; mtime and size are its own, and
\* content stands for the bytes, sizes and mtimes of its entries.
Directory(names) ==
    [kind |-> "dir", mode |-> 1, mtime |-> 0, size |-> 0, content |-> 0, names |-> names]

\* hashFileInfo that hashes the mtime of a directory as it does for a file.
hashFileInfoDirTime(f) ==
    IF disk[f].kind = "none" THEN [err |-> ErrNotExist, hash |-> <<>>]
    ELSE IF disk[f].kind = "file"
    THEN [err |-> Nil, hash |-> <<"file", disk[f].mode, disk[f].mtime, disk[f].size>>]
    ELSE [err |-> Nil, hash |-> <<"dir", disk[f].mode, disk[f].mtime, SortedSeq(disk[f].names)>>]

\* hashFileInfo and hashDirInfo: the error of os.Stat, else the SHA-256 of
\* mode, mtime and size of a regular file, or of mode and the sorted entry
\* names of a directory.  The digest is written as the tuple it is taken of.
hashFileInfo(f) ==
    IF disk[f].kind = "none" THEN [err |-> ErrNotExist, hash |-> <<>>]
    ELSE IF disk[f].kind = "file"
    THEN [err |-> Nil, hash |-> <<"file", disk[f].mode, disk[f].mtime, disk[f].size>>]
    ELSE [err |-> Nil, hash |-> <<"dir", disk[f].mode, SortedSeq(disk[f].names)>>]

\* hashFileContent: the error of os.Open, the empty string for a directory,
\* else the SHA-256 of the first Size() bytes of the file.
hashFileContent(f) ==
    IF disk[f].kind = "none" THEN [err |-> ErrNotExist, hash |-> <<>>]
    ELSE IF disk[f].kind = "dir" THEN [err |-> Nil, hash |-> <<>>]
    ELSE [err |-> Nil, hash |-> <<"bytes", disk[f].size, disk[f].content>>]

\* newFileSnapshot: name, info hash and content hash of a file.
newFileSnapshot(f) ==
    IF hashFileInfo(f).err # Nil THEN [err |-> hashFileInfo(f).err, file |-> <<>>]
    ELSE IF hashFileContent(f).err # Nil THEN [err |-> hashFileContent(f).err, file |-> <<>>]
    ELSE [err |-> Nil,
          file |-> <<[name |-> f, hash |-> hashFileInfo(f).hash, content |-> hashFileContent(f).hash]>>]

RECURSIVE newFileSnapshotsKeepMissing(_)
\* newFileSnapshots that records a missing file with empty hashes.
newFileSnapshotsKeepMissing(names) ==
    IF names = <<>> THEN <<>>
    ELSE IF newFileSnapshot(Head(names)).err = ErrNotExist
    THEN <<[name |-> Head(names), hash |-> <<>>, content |-> <<>>]>>
             \o newFileSnapshotsKeepMissing(Tail(names))
    ELSE newFileSnapshot(Head(names)).file \o newFileSnapshotsKeepMissing(Tail(names))

RECURSIVE newFileSnapshots(_)
\* The loop of newFileSnapshots over the sorted names: the snapshots of the
\* files that exist; a file that does not exist is left out.
newFileSnapshots(names) ==
    IF names = <<>> THEN <<>>
    ELSE IF newFileSnapshot(Head(names)).err = ErrNotExist
    THEN newFileSnapshots(Tail(names))
    ELSE newFileSnapshot(Head(names)).file \o newFileSnapshots(Tail(names))

RECURSIVE sortStrings(_)
\* sort.Strings: the names in increasing order.
sortStrings(a) ==
    IF a = <<>> THEN <<>>
    ELSE LET i == CHOOSE i \in 1..Len(a) : \A j \in 1..Len(a) : a[i] <= a[j]
         IN  <<a[i]>> \o sortStrings(SubSeq(a, 1, i - 1) \o SubSeq(a, i + 1, Len(a)))

\* hashTarget: the SHA-256 of the target's dependencies and commands.
hashTarget(t) == <<"target", thash[t]>>

\* The targetSnapshot that AddTarget builds for target t and the input names.
targetSnapshot(t, inputs) ==
    [name |-> t, hash |-> hashTarget(t), inputs |-> newFileSnapshots(sortStrings(inputs))]

\* encodeTargetSnapshot and proto.Marshal: the fields Name, Hash and one
\* Inputs field per file, in the order of their tags.
Marshal(ts) == <<ts.name, ts.hash>> \o ts.inputs

\* proto.Unmarshal and decodeTargetSnapshot: a field that is not in the
\* buffer is left at its zero value; a buffer that ends inside a field is an
\* error.
Unmarshal(buf, torn) ==
    IF torn THEN [err |-> ErrUnexpectedEOF, ts |-> [name |-> 0, hash |-> <<>>, inputs |-> <<>>]]
    ELSE [err |-> Nil,
          ts |-> [name |-> IF Len(buf) >= 1 THEN buf[1] ELSE 0,
                  hash |-> IF Len(buf) >= 2 THEN buf[2] ELSE <<>>,
                  inputs |-> IF Len(buf) >= 3 THEN SubSeq(buf, 3, Len(buf)) ELSE <<>>]]

\* No file for the target under the snapshot path.
NoSnapshotFile == [exists |-> FALSE, buf |-> <<>>, torn |-> FALSE]

\* Snapshot.readTarget: ioutil.ReadFile and proto.Unmarshal.
readTarget(t) ==
    IF ~store[t].exists
    THEN [err |-> ErrSnapshotTargetNotFound, ts |-> [name |-> 0, hash |-> <<>>, inputs |-> <<>>]]
    ELSE Unmarshal(store[t].buf, store[t].torn)

\* fileSnapshot.isDirty: dirty when the file is gone or its info hash has
\* changed, else when its content hash has changed.
isDirty(f) ==
    IF hashFileInfo(f.name).err = ErrNotExist THEN [dirty |-> TRUE, err |-> Nil]
    ELSE IF f.hash # hashFileInfo(f.name).hash THEN [dirty |-> TRUE, err |-> Nil]
    ELSE IF hashFileContent(f.name).err # Nil
    THEN [dirty |-> FALSE, err |-> hashFileContent(f.name).err]
    ELSE IF f.content # hashFileContent(f.name).hash THEN [dirty |-> TRUE, err |-> Nil]
    ELSE [dirty |-> FALSE, err |-> Nil]

RECURSIVE isDirtyEach(_)
\* fileSnapshots.isDirty: the first file that is dirty or gives an error.
isDirtyEach(a) ==
    IF a = <<>> THEN [dirty |-> FALSE, err |-> Nil]
    ELSE IF isDirty(Head(a)).err # Nil THEN [dirty |-> FALSE, err |-> isDirty(Head(a)).err]
    ELSE IF isDirty(Head(a)).dirty THEN [dirty |-> TRUE, err |-> Nil]
    ELSE isDirtyEach(Tail(a))

\* Snapshot.IsTargetDirty.
IsTargetDirty(t) ==
    IF readTarget(t).err = ErrSnapshotTargetNotFound THEN [dirty |-> TRUE, err |-> Nil]
    ELSE IF readTarget(t).err # Nil THEN [dirty |-> FALSE, err |-> readTarget(t).err]
    ELSE IF readTarget(t).ts.hash # hashTarget(t) THEN [dirty |-> TRUE, err |-> Nil]
    ELSE isDirtyEach(readTarget(t).ts.inputs)

\* ioutil.WriteFile without O_TRUNC on a file that was opened by two writers:
\* the bytes written at offset 0 replace the start of what is in the file.
WriteAt0(old, new) ==
    IF Len(old) > Len(new) THEN new \o SubSeq(old, Len(new) + 1, Len(old)) ELSE new

\* The goroutines that call Snapshot.AddTarget, each once, as the goroutines
\* of Builder.build do.
Clients == {1, 2}

\* A goroutine that has not called AddTarget.
IdleClient ==
    [pc |-> "idle", t |-> 0, ts |-> [name |-> 0, hash |-> <<>>, inputs |-> <<>>], saw |-> <<>>]

\* No operation on the snapshot yet.
NoOp == [op |-> "none", file |-> 0, clean |-> FALSE]

\* NewSnapshot: nothing has been called on the snapshot.
FreshSnapshot ==
    /\ client = [c \in Clients |-> IdleClient]
    /\ used = 0
    /\ lastop = NoOp

(***************************************************************************)
(* The 9p FileSystem before it is opened.                                  *)
(***************************************************************************)
\* The open modes of go9p, with the values of the 9P protocol.
OREAD == 0

OWRITE == 1

ORDWR == 2

\* No request has been served yet.
NoReq == [op |-> "none", mode |-> OREAD, via |-> "", path |-> <<>>, dest |-> <<>>, count |-> 0]

\* NewFileSystemRoot: empty read and write sets.
NewFileSystemRoot == [readset |-> {}, writeset |-> {}]

\* No command is running: there is no process and there are no streams.
NoStreams ==
    /\ proc = <<>>
    /\ ospipe = <<>>
    /\ copier = <<>>
    /\ sink = <<>>
    /\ drain = "concurrent"

\* No call of Package.Target or ParseLabel is under way.
NoCall ==
    /\ arg = <<>>
    /\ ret = <<>>

\* No file system is being served.
NoFileSystem ==
    /\ fsroots = <<>>
    /\ fids = <<>>
    /\ tree = <<>>
    /\ lastreq = NoReq

(***************************************************************************)
(* Builder.                                                                *)
(***************************************************************************)
\* Builder.wg: no goroutine is ever added to the wait group.
wg == 0

\* reserve without the look-up in b.builds: every caller is granted the build.
reserveNoCheck(bs, k) == [reserved |-> TRUE, builds |-> bs \cup {k}]

\* Builder.reserve: false when the build is in b.builds, else it is added.
reserve(bs, k) ==
    IF k \in bs THEN [reserved |-> FALSE, builds |-> bs]
    ELSE [reserved |-> TRUE, builds |-> bs \cup {k}]

\* Where a goroutine continues once its call of Builder.build has returned:
\* the caller of Build closes the closing channel, a goroutine of buildEach
\* sends its build on the results channel.
Returned(w) == IF w = Main THEN "close" ELSE "send"

\* The loop of buildEach leaving one completion too early.
LoopHeadOffByOne(w, cnt) ==
    IF cnt + 1 >= Len(dependencies[NodeOf(w)]) THEN "exec" ELSE "select"

\* The head of buildEach's loop: break when n == len(builds), else select.
LoopHead(w, cnt) == IF cnt = Len(dependencies[NodeOf(w)]) THEN "exec" ELSE "select"

\* Builder.build up to the select of buildEach: reserve the build; the loser
\* waits for done, the winner starts one goroutine per dependency.
Reserve(w) ==
    /\ ~panicked
    /\ pc[w] = "reserve"
    /\ LET r == reserve(builds, NodeOf(w)) IN
        /\ builds' = r.builds
        /\ reserved' = [reserved EXCEPT ![w] = IF r.reserved THEN "granted" ELSE "refused"]
        /\ IF r.reserved
           THEN /\ pc' = [v \in Workers |->
                            IF v = w THEN LoopHead(w, 0)
                            ELSE IF v \in Children(w) THEN "reserve"
                            ELSE pc[v]]
                /\ n' = [n EXCEPT ![w] = 0]
           ELSE /\ pc' = [pc EXCEPT ![w] = "wait"]
                /\ UNCHANGED n
    /\ UNCHANGED <<dependencies, commands, closing, err, done, panicked,
                   ci, obs, roots, cmdlog, snaplog, writes, pvars, svars, fvars, tvars, hvars>>

\* Builder.build of a goroutine that lost the reservation: build.Wait().
WaitDone(w) ==
    /\ ~panicked
    /\ pc[w] = "wait"
    /\ Wait(NodeOf(w))
    /\ pc' = [pc EXCEPT ![w] = Returned(w)]
    /\ UNCHANGED <<dependencies, commands, reserved, builds, closing, err, done, panicked,
                   n, ci, obs, roots, cmdlog, snaplog, writes, pvars, svars, fvars, tvars, hvars>>

\* buildEach, case build := <-results: the goroutine of dependency i hands
\* over its build; a non-nil error ends the build with ErrDependency.
SelectResult(w, i) ==
    LET c == Append(w, i)
        k == NodeOf(w)
    IN
    /\ ~panicked
    /\ pc[w] = "select"
    /\ i \in 1..Len(dependencies[k])
    /\ pc[c] = "send"
    /\ obs' = [obs EXCEPT ![c] = Err(NodeOf(c))]
    /\ IF Err(NodeOf(c)) # Nil
       THEN /\ Done(k, ErrDependency)
            /\ pc' = [pc EXCEPT ![c] = "exit", ![w] = Returned(w)]
            /\ UNCHANGED n
       ELSE /\ n' = [n EXCEPT ![w] = @ + 1]
            /\ pc' = [pc EXCEPT ![c] = "exit", ![w] = LoopHead(w, n[w] + 1)]
            /\ UNCHANGED <<err, done, panicked>>
    /\ UNCHANGED <<dependencies, commands, reserved, builds, closing,
                   ci, roots, cmdlog, snaplog, writes, pvars, svars, fvars, tvars, hvars>>

\* buildEach taking the case <-b.closing whether or not the channel is closed.
SelectClosingEarly(w) ==
    /\ ~panicked
    /\ pc[w] = "select"
    /\ Done(NodeOf(w), ErrCanceled)
    /\ pc' = [pc EXCEPT ![w] = Returned(w)]
    /\ UNCHANGED <<dependencies, commands, reserved, builds, closing,
                   n, ci, obs, roots, cmdlog, snaplog, writes, pvars, svars, fvars, tvars, hvars>>

\* buildEach, case <-b.closing, returning without build.Done.
SelectClosingNoDone(w) ==
    /\ ~panicked
    /\ pc[w] = "select"
    /\ closing
    /\ pc' = [pc EXCEPT ![w] = Returned(w)]
    /\ UNCHANGED <<dependencies, commands, reserved, builds, closing, err, done, panicked,
                   n, ci, obs, roots, cmdlog, snaplog, writes, pvars, svars, fvars, tvars, hvars>>

\* buildEach, case <-b.closing: the build ends with ErrCanceled.
SelectClosing(w) ==
    /\ ~panicked
    /\ pc[w] = "select"
    /\ closing
    /\ Done(NodeOf(w), ErrCanceled)
    /\ pc' = [pc EXCEPT ![w] = Returned(w)]
    /\ UNCHANGED <<dependencies, commands, reserved, builds, closing,
                   n, ci, obs, roots, cmdlog, snaplog, writes, pvars, svars, fvars, tvars, hvars>>

\* The range loop over target.Commands after c commands have returned: b.run
\* starts command c + 1 unless all total commands have run.
StartCmd(log, c, total) ==
    IF c < total THEN Append(log, [cmd |-> c + 1, res |-> "running", saw |-> <<>>]) ELSE log

\* Builder.build after buildEach returned nil and the sleep: the top-level
\* build is done; a build with a target gets a tracking root and b.run starts
\* its first command, if it has one.
Execute(w) ==
    LET k == NodeOf(w) IN
    /\ ~panicked
    /\ pc[w] = "exec"
    /\ IF ~HasTarget(k)
       THEN /\ Done(k, Nil)
            /\ pc' = [pc EXCEPT ![w] = Returned(w)]
            /\ UNCHANGED <<ci, roots, cmdlog>>
       ELSE /\ roots' = [roots EXCEPT ![w] = [created |-> TRUE, readset |-> {}]]
            /\ ci' = [ci EXCEPT ![w] = 0]
            /\ cmdlog' = [cmdlog EXCEPT ![k] = StartCmd(@, 0, commands[k])]
            /\ pc' = [pc EXCEPT ![w] = IF commands[k] = 0 THEN "snapshot" ELSE "running"]
            /\ UNCHANGED <<err, done, panicked>>
    /\ UNCHANGED <<dependencies, commands, reserved, builds, closing,
                   n, obs, snaplog, writes, pvars, svars, fvars, tvars, hvars>>

\* The file that command c of node k reads.
FileOf(k, c) == 10 * k + c

\* A runner that drops the error of the process.
runDropError(ok) == Nil

\* A runner whose process is killed once the closing channel is closed.
runUntilClosing(ok) == IF closing THEN ErrCanceled ELSE IF ok THEN Nil ELSE CmdErr

\* Builder.run, runExec, runShell: the error of c.Run(), nil when the process
\* exited with status zero.
run(ok) == IF ok THEN Nil ELSE CmdErr

\* The file after a process has written new bytes of the same length to it.
Rewritten(file) ==
    IF file.kind = "file"
    THEN [file EXCEPT !.content = 1 - @, !.mtime = @ + 1]
    ELSE RegularFile(0, 1, 0)

\* The streams of a build: c.Stdout and c.Stderr of its commands.
Streams == {"stdout", "stderr"}

\* exec.Cmd.Wait of c.Run(): the process has exited and the goroutines that
\* copy its output into c.Stdout and c.Stderr have finished.  When the
\* streams are not followed, the consumer reads all output as it comes.
Waited ==
    IF copier = <<>> THEN TRUE
    ELSE proc.state = "exited" /\ \A s \in Streams : copier[s].pc = "done"

\* The command's process exits: c.Run() returns nil or an error, and the
\* process has read its file and written the file the target writes, if any.
\* An error ends the build with it; else the next command is started, and
\* after the last command the snapshot is persisted.
CmdExit(w, ok) ==
    LET k == NodeOf(w)
        j == CHOOSE j \in 1..Len(cmdlog[k]) :
                 /\ cmdlog[k][j].cmd = ci[w] + 1
                 /\ cmdlog[k][j].res = "running"
    IN
    /\ ~panicked
    /\ pc[w] = "running"
    /\ Waited
    /\ cmdlog' = [cmdlog EXCEPT ![k] =
                     LET exited == [@ EXCEPT ![j].res = IF ok THEN "ok" ELSE "fail",
                                             ![j].saw = <<disk[FileOf(k, ci[w] + 1)]>>]
                     IN  IF run(ok) = Nil
                         THEN StartCmd(exited, ci[w] + 1, commands[k])
                         ELSE exited]
    /\ roots' = [roots EXCEPT ![w].readset = @ \cup {FileOf(k, ci[w] + 1)}]
    /\ disk' = IF writes[k] = 0 THEN disk ELSE [disk EXCEPT ![writes[k]] = Rewritten(@)]
    /\ IF run(ok) = Nil
       THEN /\ ci' = [ci EXCEPT ![w] = @ + 1]
            /\ pc' = [pc EXCEPT ![w] = IF ci[w] + 1 = commands[k] THEN "snapshot" ELSE "running"]
            /\ UNCHANGED <<err, done, panicked>>
       ELSE /\ Done(k, run(ok))
            /\ pc' = [pc EXCEPT ![w] = Returned(w)]
            /\ UNCHANGED ci
    /\ UNCHANGED <<dependencies, commands, reserved, builds, closing,
                   n, obs, snaplog, writes, pvars, fvars, tvars, hvars,
                   thash, store, client, seen, used, lastop>>

\* stringSetSlice: the keys of the set, sorted.
stringSetSlice(m) == SortedSeq(m)

\* Builder.Snapshot is not nil.
SnapshotAssigned == store # <<>>

\* b.Snapshot.AddTarget(target, stringSetSlice(root.Readset())) and the
\* build.Done that follows it: AddTarget writes the snapshot of the target,
\* or fails with an I/O error before it has written anything.  On a nil
\* Snapshot, AddTarget reads ss.root through the nil pointer: a runtime panic
\* in the goroutine, which ends the process.
AddTarget(w, ok) ==
    LET k == NodeOf(w) IN
    /\ ~panicked
    /\ pc[w] = "snapshot"
    /\ snaplog' = [snaplog EXCEPT ![k] =
                      Append(@, [root |-> w, inputs |-> stringSetSlice(roots[w].readset)])]
    /\ IF SnapshotAssigned
       THEN /\ store' = IF ok
                        THEN [store EXCEPT ![k] =
                                 [exists |-> TRUE,
                                  buf |-> Marshal(targetSnapshot(k, stringSetSlice(roots[w].readset))),
                                  torn |-> FALSE]]
                        ELSE store
            /\ Done(k, IF ok THEN Nil ELSE SnapErr)
            /\ pc' = [pc EXCEPT ![w] = Returned(w)]
       ELSE /\ panicked' = TRUE
            /\ UNCHANGED <<store, err, done, pc>>
    /\ UNCHANGED <<dependencies, commands, reserved, builds, closing,
                   n, ci, obs, roots, cmdlog, writes, pvars, fvars, tvars, hvars,
                   disk, thash, client, seen, used, lastop>>

\* Builder.Build after b.build(build) returned: close(b.closing).
Close ==
    /\ ~panicked
    /\ pc[Main] = "close"
    /\ closing' = TRUE
    /\ pc' = [pc EXCEPT ![Main] = "wgwait"]
    /\ UNCHANGED <<dependencies, commands, reserved, builds, err, done, panicked,
                   n, ci, obs, roots, cmdlog, snaplog, writes, pvars, svars, fvars, tvars, hvars>>

\* Builder.Build: b.wg.Wait() returns when the wait group's counter is zero.
WgWait ==
    /\ ~panicked
    /\ pc[Main] = "wgwait"
    /\ wg = 0
    /\ pc' = [pc EXCEPT ![Main] = "returned"]
    /\ UNCHANGED <<dependencies, commands, reserved, builds, closing, err, done, panicked,
                   n, ci, obs, roots, cmdlog, snaplog, writes, pvars, svars, fvars, tvars, hvars>>

\* No call of Planner.Plan is under way.
NoPlanner ==
    /\ pkg = <<>>
    /\ requests = <<>>
    /\ changeset = {}
    /\ plan = <<>>

\* The files that the commands of a build graph read, given the number of
\* commands of every node.
BuildFiles(cmds) == UNION { { FileOf(k, c) : c \in 1..cmds[k] } : k \in Nodes }

\* NewBuilder, a graph of builds made by newBuild with at most edges
\* dependency edges, and the call of Builder.Build(top).  With written, the
\* commands of at most one target write a file that a command of another
\* target reads.  Without assigned, Builder.Snapshot is left nil, as NewBuilder
\* leaves it.
StartBuilder(edges, written, assigned) ==
    /\ NoPlanner
    /\ dependencies \in Graphs
    /\ SumOver([k \in Nodes |-> Len(dependencies[k])], Nodes) <= edges
    /\ commands \in [Nodes -> 0..MaxCmds]
    /\ \A k \in Nodes : ~HasTarget(k) \/ k \notin Reach(dependencies, Top) => commands[k] = 0
    /\ SumOver(commands, Nodes) <= MaxCmds
    /\ writes \in [Nodes -> (IF written THEN BuildFiles(commands) ELSE {}) \cup {0}]
    /\ \A k \in Nodes : writes[k] # 0 =>
          /\ commands[k] > 0
          /\ \A j \in Nodes \ {k} : writes[j] = 0
          /\ \E j \in Reach(dependencies, Top) \ {k} : \E c \in 1..commands[j] :
                writes[k] = FileOf(j, c)
    /\ builds = {}
    /\ closing = FALSE
    /\ err = [k \in Nodes |-> Nil]
    /\ done = [k \in Nodes |-> 0]
    /\ panicked = FALSE
    /\ pc = [w \in PathsFrom(dependencies, Top) |-> IF w = Main THEN "reserve" ELSE "idle"]
    /\ reserved = [w \in PathsFrom(dependencies, Top) |-> "none"]
    /\ n = [w \in PathsFrom(dependencies, Top) |-> 0]
    /\ ci = [w \in PathsFrom(dependencies, Top) |-> 0]
    /\ obs = [w \in PathsFrom(dependencies, Top) |-> "unread"]
    /\ roots = [w \in PathsFrom(dependencies, Top) |-> [created |-> FALSE, readset |-> {}]]
    /\ cmdlog = [k \in Nodes |-> <<>>]
    /\ snaplog = [k \in Nodes |-> <<>>]
    /\ disk = [f \in BuildFiles(commands) |-> RegularFile(0, 1, 0)]
    /\ thash = [k \in Nodes |-> 0]
    /\ store = IF assigned THEN [k \in Nodes |-> NoSnapshotFile] ELSE <<>>
    /\ seen = [k \in Nodes |-> <<>>]
    /\ FreshSnapshot
    /\ NoFileSystem
    /\ NoStreams
    /\ NoCall

\* The same with a Snapshot assigned to the Builder.
Start(edges, written) == StartBuilder(edges, written, TRUE)

\* A run of the Builder on a graph whose commands only read files.
Init == Start(MaxEdges, FALSE)

\* A run of the Builder on a graph in which the commands of one target may
\* write a file that a command of another target reads.
WriterInit == Start(MaxWriterEdges, TRUE)

Next ==
    \/ \E w \in Workers : Reserve(w)
    \/ \E w \in Workers : WaitDone(w)
    \/ \E w \in Workers : \E i \in 1..Cardinality(Nodes) : SelectResult(w, i)
    \/ \E w \in Workers : SelectClosing(w)
    \/ \E w \in Workers : Execute(w)
    \/ \E w \in Workers : \E ok \in BOOLEAN : CmdExit(w, ok)
    \/ \E w \in Workers : \E ok \in BOOLEAN : AddTarget(w, ok)
    \/ Close
    \/ WgWait

Spec == Init /\ [][Next]_vars

WriterSpec == WriterInit /\ [][Next]_vars

\* A run of a Builder as NewBuilder returns it, with no Snapshot assigned, as
\* Main.Run starts it.
NilSnapshotInit == StartBuilder(MaxFairEdges, FALSE, FALSE)

NilSnapshotSpec == NilSnapshotInit /\ [][Next]_vars

\* A run in which the Go scheduler lets every goroutine that can take a step
\* take one, and every command and every snapshot write returns.
FairInit == Start(MaxFairEdges, FALSE)

FairSpec == FairInit /\ [][Next]_vars /\ WF_vars(Next)

(***************************************************************************)
(* The output of a command: the process, exec's copiers, the io.Pipe of    *)
(* the build and the consumer of Stdout() and Stderr().                    *)
(***************************************************************************)
\* The goroutine of the build whose command is followed.
Runner == <<1>>

\* The goroutine of exec before it has read from the process.
NewCopier == [pc |-> "read", chunk |-> 0]

\* The process writes one byte to stream s; the pipe of the operating system
\* takes it.
ProcWrite(s) ==
    /\ ~panicked
    /\ pc[Runner] = "running"
    /\ proc.state = "running"
    /\ proc.out[s] < proc.total[s]
    /\ proc' = [proc EXCEPT !.out[s] = @ + 1]
    /\ ospipe' = [ospipe EXCEPT ![s] = @ + 1]
    /\ UNCHANGED <<bvars, pvars, svars, fvars, hvars, copier, sink, drain>>

\* The process exits when it has written its output.
ProcExit ==
    /\ ~panicked
    /\ pc[Runner] = "running"
    /\ proc.state = "running"
    /\ \A s \in Streams : proc.out[s] = proc.total[s]
    /\ proc' = [proc EXCEPT !.state = "exited"]
    /\ UNCHANGED <<bvars, pvars, svars, fvars, hvars, ospipe, copier, sink, drain>>

\* io.Copy of exec for stream s reads what the process has written and
\* calls Write of the build's io.PipeWriter with it.
CopyRead(s) ==
    /\ ~panicked
    /\ copier[s].pc = "read"
    /\ ospipe[s] > 0
    /\ copier' = [copier EXCEPT ![s] = [pc |-> "write", chunk |-> ospipe[s]]]
    /\ ospipe' = [ospipe EXCEPT ![s] = 0]
    /\ UNCHANGED <<bvars, pvars, svars, fvars, hvars, proc, sink, drain>>

\* io.Copy of exec for stream s reads end of file, the process having exited,
\* and finishes.
CopyEOF(s) ==
    /\ ~panicked
    /\ copier[s].pc = "read"
    /\ ospipe[s] = 0
    /\ proc.state = "exited"
    /\ copier' = [copier EXCEPT ![s].pc = "done"]
    /\ UNCHANGED <<bvars, pvars, svars, fvars, hvars, proc, ospipe, sink, drain>>

\* The consumer reads from Stdout() or Stderr(): io.PipeReader.Read takes the
\* bytes of the Write that is under way, which then returns.  A consumer that
\* drains after Wait reads only when the done channel of the build is closed.
PipeRead(s) ==
    /\ ~panicked
    /\ drain = "after wait" => Wait(NodeOf(Runner))
    /\ copier[s].pc = "write"
    /\ sink' = [sink EXCEPT ![s] = @ + copier[s].chunk]
    /\ copier' = [copier EXCEPT ![s] = NewCopier]
    /\ UNCHANGED <<bvars, pvars, svars, fvars, hvars, proc, ospipe, drain>>

\* NewBuilder and Builder.Build for a top-level build with one dependency,
\* which has one command; the process of the command writes up to MaxBytes
\* bytes to each stream, and the consumer reads the streams while the build
\* runs or only after Wait has returned.
StreamInit ==
    /\ NoPlanner
    /\ dependencies = [k \in Nodes |-> IF k = Top THEN <<1>> ELSE <<>>]
    /\ commands = [k \in Nodes |-> IF k = 1 THEN 1 ELSE 0]
    /\ writes = [k \in Nodes |-> 0]
    /\ builds = {}
    /\ closing = FALSE
    /\ err = [k \in Nodes |-> Nil]
    /\ done = [k \in Nodes |-> 0]
    /\ panicked = FALSE
    /\ pc = [w \in {Main, Runner} |-> IF w = Main THEN "reserve" ELSE "idle"]
    /\ reserved = [w \in {Main, Runner} |-> "none"]
    /\ n = [w \in {Main, Runner} |-> 0]
    /\ ci = [w \in {Main, Runner} |-> 0]
    /\ obs = [w \in {Main, Runner} |-> "unread"]
    /\ roots = [w \in {Main, Runner} |-> [created |-> FALSE, readset |-> {}]]
    /\ cmdlog = [k \in Nodes |-> <<>>]
    /\ snaplog = [k \in Nodes |-> <<>>]
    /\ disk = [f \in BuildFiles(commands) |-> RegularFile(0, 1, 0)]
    /\ thash = [k \in Nodes |-> 0]
    /\ store = [k \in Nodes |-> NoSnapshotFile]
    /\ seen = [k \in Nodes |-> <<>>]
    /\ FreshSnapshot
    /\ NoFileSystem
    /\ NoCall
    /\ \E total \in [Streams -> 0..MaxBytes] :
          proc = [state |-> "running", out |-> [s \in Streams |-> 0], total |-> total]
    /\ ospipe = [s \in Streams |-> 0]
    /\ copier = [s \in Streams |-> NewCopier]
    /\ sink = [s \in Streams |-> 0]
    /\ drain \in {"concurrent", "after wait"}

StreamNext ==
    \/ \E w \in Workers : Reserve(w)
    \/ \E w \in Workers : \E i \in 1..Cardinality(Nodes) : SelectResult(w, i)
    \/ \E w \in Workers : Execute(w)
    \/ \E s \in Streams : ProcWrite(s)
    \/ ProcExit
    \/ \E s \in Streams : CopyRead(s)
    \/ \E s \in Streams : CopyEOF(s)
    \/ \E s \in Streams : PipeRead(s)
    \/ \E w \in Workers : \E ok \in BOOLEAN : CmdExit(w, ok)
    \/ \E w \in Workers : \E ok \in BOOLEAN : AddTarget(w, ok)
    \/ Close
    \/ WgWait

\* Every step that can be taken is taken in the end: the goroutines and the
\* process are scheduled.
StreamSpec == StreamInit /\ [][StreamNext]_vars /\ WF_vars(StreamNext)

(***************************************************************************)
(* Package and Planner.                                                    *)
(***************************************************************************)
\* The error of Plan for a requested target the package does not have.
ErrTargetNotFound == "target not found"

\* The fatal error of the Go runtime when the recursion of planTarget
\* exhausts the goroutine's stack.
StackOverflow == "stack overflow"

\* Package.Target that looks at the names of the targets only.
TargetByName(p, name) ==
    LET found == { i \in 1..Len(p) : p[i].Name = name }
    IN  IF found = {} THEN 0
        ELSE CHOOSE i \in found : \A j \in found : i <= j

\* Package.Target: the first target, in the order of the package, whose name
\* is the given name or that lists it among its outputs; 0 when there is none.
Target(p, name) ==
    LET found == { i \in 1..Len(p) :
                     \/ p[i].Name = name
                     \/ \E j \in 1..Len(p[i].Outputs) : p[i].Outputs[j] = name }
    IN  IF found = {} THEN 0
        ELSE CHOOSE i \in found : \A j \in found : i <= j

RECURSIVE planTarget(_, _, _, _, _)
RECURSIVE planInputs(_, _, _, _, _, _)
RECURSIVE planInputsBreak(_, _, _, _, _, _)
\* planTarget without the look-up of the build in the builds map.
planTargetNoReuse(p, t, cs, st, depth) ==
    IF depth > Len(p)
    THEN [st |-> st, build |-> 0, err |-> StackOverflow]
    ELSE LET r == planInputs(p, t, cs, 1,
                     [st |-> st, inputsChanged |-> FALSE, dependencies |-> <<>>, err |-> Nil],
                     depth)
         IN  IF r.err # Nil THEN [st |-> r.st, build |-> 0, err |-> r.err]
             ELSE IF ~r.inputsChanged THEN [st |-> r.st, build |-> 0, err |-> Nil]
             ELSE LET b == Len(r.st.heap) + 1 IN
                  [st |-> [heap |-> Append(r.st.heap,
                                      [target |-> t, dependencies |-> r.dependencies]),
                           builds |-> [r.st.builds EXCEPT ![p[t].Name] = b]],
                   build |-> b,
                   err |-> Nil]

\* Planner.planTarget for target t of package p.  st holds the Build values
\* allocated so far (heap) and the builds map from target names to them (0 is
\* nil).  A target is on the call stack at most once unless the recursion
\* never ends, so a depth beyond the number of targets is a stack overflow.
planTarget(p, t, cs, st, depth) ==
    IF depth > Len(p)
    THEN [st |-> st, build |-> 0, err |-> StackOverflow]
    ELSE IF st.builds[p[t].Name] # 0
    THEN [st |-> st, build |-> st.builds[p[t].Name], err |-> Nil]
    ELSE LET r == planInputs(p, t, cs, 1,
                     [st |-> st, inputsChanged |-> FALSE, dependencies |-> <<>>, err |-> Nil],
                     depth)
         IN  IF r.err # Nil THEN [st |-> r.st, build |-> 0, err |-> r.err]
             ELSE IF ~r.inputsChanged THEN [st |-> r.st, build |-> 0, err |-> Nil]
             ELSE LET b == Len(r.st.heap) + 1 IN
                  [st |-> [heap |-> Append(r.st.heap,
                                      [target |-> t, dependencies |-> r.dependencies]),
                           builds |-> [r.st.builds EXCEPT ![p[t].Name] = b]],
                   build |-> b,
                   err |-> Nil]

\* The loop over t.Inputs leaving at the first changed file input.
planInputsBreak(p, t, cs, i, acc, depth) ==
    IF i > Len(p[t].Inputs) THEN acc
    ELSE LET input == p[t].Inputs[i]
             subtarget == Target(p, input)
         IN  IF subtarget = 0
             THEN IF input \in cs THEN [acc EXCEPT !.inputsChanged = TRUE]
                  ELSE planInputsBreak(p, t, cs, i + 1, acc, depth)
             ELSE LET r == planTarget(p, subtarget, cs, acc.st, depth + 1) IN
                  IF r.err # Nil THEN [acc EXCEPT !.st = r.st, !.err = r.err]
                  ELSE IF r.build = 0
                  THEN planInputsBreak(p, t, cs, i + 1, [acc EXCEPT !.st = r.st], depth)
                  ELSE planInputsBreak(p, t, cs, i + 1,
                           [acc EXCEPT !.st = r.st,
                                       !.dependencies = Append(@, r.build),
                                       !.inputsChanged = TRUE], depth)

\* The loop of planTarget over t.Inputs from index i on: an input that is no
\* target is a file and marks the build dirty when it is in the changeset; an
\* input that is a target is planned and, unless its plan is nil, appended.
planInputs(p, t, cs, i, acc, depth) ==
    IF i > Len(p[t].Inputs) THEN acc
    ELSE LET input == p[t].Inputs[i]
             subtarget == Target(p, input)
         IN  IF subtarget = 0
             THEN planInputs(p, t, cs, i + 1,
                      [acc EXCEPT !.inputsChanged = @ \/ input \in cs], depth)
             ELSE LET r == planTarget(p, subtarget, cs, acc.st, depth + 1) IN
                  IF r.err # Nil THEN [acc EXCEPT !.st = r.st, !.err = r.err]
                  ELSE IF r.build = 0
                  THEN planInputs(p, t, cs, i + 1, [acc EXCEPT !.st = r.st], depth)
                  ELSE planInputs(p, t, cs, i + 1,
                           [acc EXCEPT !.st = r.st,
                                       !.dependencies = Append(@, r.build),
                                       !.inputsChanged = TRUE], depth)

RECURSIVE planEach(_, _, _, _, _, _)
\* The loop of Plan over the requested targets from index i on; deps are the
\* dependencies collected for the top-level build.
planEach(p, targets, cs, i, st, deps) ==
    IF i > Len(targets) THEN [st |-> st, dependencies |-> deps, err |-> Nil]
    ELSE LET t == Target(p, targets[i]) IN
         IF t = 0 THEN [st |-> st, dependencies |-> deps, err |-> ErrTargetNotFound]
         ELSE LET r == planTarget(p, t, cs, st, 1) IN
              IF r.err # Nil THEN [st |-> r.st, dependencies |-> deps, err |-> r.err]
              ELSE IF r.build = 0 THEN planEach(p, targets, cs, i + 1, r.st, deps)
              ELSE planEach(p, targets, cs, i + 1, r.st, Append(deps, r.build))

\* Plan without the check for a top-level build that has no dependencies.
PlanAlwaysRoot(p, targets, cs) ==
    LET r == planEach(p, targets, cs, 1,
                 [heap |-> <<>>, builds |-> [i \in { p[j].Name : j \in 1..Len(p) } |-> 0]],
                 <<>>)
    IN  IF r.err # Nil THEN [build |-> 0, err |-> r.err, heap |-> r.st.heap]
        ELSE [build |-> Len(r.st.heap) + 1,
              err |-> Nil,
              heap |-> Append(r.st.heap, [target |-> 0, dependencies |-> r.dependencies])]

\* Planner.Plan: the top-level build (build, 0 for nil), the error, and the
\* Build values the result refers to (heap; target 0 is the nil target).
Plan(p, targets, cs) ==
    LET r == planEach(p, targets, cs, 1,
                 [heap |-> <<>>, builds |-> [i \in { p[j].Name : j \in 1..Len(p) } |-> 0]],
                 <<>>)
    IN  IF r.err # Nil THEN [build |-> 0, err |-> r.err, heap |-> r.st.heap]
        ELSE IF Len(r.dependencies) = 0 THEN [build |-> 0, err |-> Nil, heap |-> r.st.heap]
        ELSE [build |-> Len(r.st.heap) + 1,
              err |-> Nil,
              heap |-> Append(r.st.heap, [target |-> 0, dependencies |-> r.dependencies])]

\* The names of the targets of a package, in order.
TargetNames == <<"B", "C", "D">>

\* The names that occur as inputs: the targets C and D, the file E and the
\* name o, which is a declared output of at most one target and a file
\* otherwise.
InputNames == {"C", "D", "E", "o"}

\* The names Plan is asked for: the targets B and C, the name o and a name
\* that no package has.
RequestNames == {"B", "C", "o", "x"}

\* The sequences over S of length at most k.
SeqUpTo(S, k) == UNION { [1..m -> S] : m \in 0..k }

\* The builder is idle: no graph, and Builder.Build is not running.
NoBuilder ==
    /\ dependencies = [k \in Nodes |-> <<>>]
    /\ commands = [k \in Nodes |-> 0]
    /\ builds = {}
    /\ closing = FALSE
    /\ err = [k \in Nodes |-> Nil]
    /\ done = [k \in Nodes |-> 0]
    /\ panicked = FALSE
    /\ pc = [w \in {Main} |-> "returned"]
    /\ reserved = [w \in {Main} |-> "none"]
    /\ n = [w \in {Main} |-> 0]
    /\ ci = [w \in {Main} |-> 0]
    /\ obs = [w \in {Main} |-> "unread"]
    /\ roots = [w \in {Main} |-> [created |-> FALSE, readset |-> {}]]
    /\ cmdlog = [k \in Nodes |-> <<>>]
    /\ snaplog = [k \in Nodes |-> <<>>]
    /\ writes = [k \in Nodes |-> 0]

\* No snapshot: no project root and no stored target.
NoSnapshot ==
    /\ disk = <<>>
    /\ thash = <<>>
    /\ store = <<>>
    /\ seen = <<>>
    /\ FreshSnapshot

\* NewPlanner(pkg) for a package of three targets with unique names, whose
\* inputs are the pieces of one sequence of at most MaxInputs names, and the
\* arguments of one call of Plan.
PlanInit ==
    /\ NoBuilder
    /\ NoSnapshot
    /\ NoFileSystem
    /\ NoStreams
    /\ NoCall
    /\ \E flat \in SeqUpTo(InputNames, MaxInputs) :
       \E a, b \in 0..Len(flat) :
       \E owner \in 0..Len(TargetNames) :
        /\ a <= b
        /\ pkg = [i \in 1..Len(TargetNames) |->
                    [Name |-> TargetNames[i],
                     Inputs |-> IF i = 1 THEN SubSeq(flat, 1, a)
                                ELSE IF i = 2 THEN SubSeq(flat, a + 1, b)
                                ELSE SubSeq(flat, b + 1, Len(flat)),
                     Outputs |-> IF i = owner THEN <<"o">> ELSE <<>>]]
    /\ requests \in SeqUpTo(RequestNames, MaxRequests)
    /\ changeset \in SUBSET {"E"}
    /\ plan = <<>>

\* p.Plan(targets, changeset).
DoPlan ==
    /\ plan = <<>>
    /\ pkg # <<>>
    /\ plan' = <<Plan(pkg, requests, changeset)>>
    /\ UNCHANGED <<bvars, fvars, tvars, hvars, pkg, requests, changeset, svars>>

PlanNext == DoPlan

PlanSpec == PlanInit /\ [][PlanNext]_vars

(***************************************************************************)
(* Package.Target and ParseLabel under their callers.                      *)
(***************************************************************************)
\* The names of the targets and outputs of a package that is searched.
LookupNames == {"a", "b"}

\* A package of at most MaxTargets targets, each with at most one output, and
\* the name that is looked up.
TargetInit ==
    /\ NoBuilder
    /\ NoSnapshot
    /\ NoFileSystem
    /\ NoStreams
    /\ pkg \in UNION { [1..m -> [Name : LookupNames,
                                  Inputs : {<<>>},
                                  Outputs : {<<>>} \cup { <<x>> : x \in LookupNames }]] :
                        m \in 1..MaxTargets }
    /\ requests = <<>>
    /\ changeset = {}
    /\ plan = <<>>
    /\ arg \in LookupNames
    /\ ret = <<>>

\* pkg.Target(name).
CallTarget ==
    /\ ret = <<>>
    /\ ret' = <<Target(pkg, arg)>>
    /\ UNCHANGED <<bvars, pvars, svars, fvars, tvars, arg>>

TargetNext == CallTarget

TargetSpec == TargetInit /\ [][TargetNext]_vars

\* The characters of a label: letters, the colon and the space.
LabelChars == {"a", "b", ":", " "}

\* \S of the regular expression: any character but white space.
NonSpace(c) == c # " "

\* ParseLabel has returned the label l.
Parsed(l) == [panic |-> FALSE, label |-> l]

\* The index out of range of a[1] when FindStringSubmatch has returned nil:
\* ParseLabel returns no label.
LabelPanic == [panic |-> TRUE, label |-> [Package |-> <<>>, Target |-> <<>>]]

\* ParseLabel: labelRegexp, ^(?:(\S*):)?(\S*)$, matched as Go's regexp does:
\* the first group takes as many characters as it can, so it ends before the
\* last colon that has no white space around; without such a colon the group
\* is skipped and the second group takes the whole string if it has no white
\* space; else there is no match and the index panics.
ParseLabel(s) ==
    LET plain(a, b) == \A i \in a..b : NonSpace(s[i])
        colons == { k \in 1..Len(s) : s[k] = ":" /\ plain(1, k - 1) /\ plain(k + 1, Len(s)) }
    IN  IF colons # {}
        THEN LET k == CHOOSE k \in colons : \A j \in colons : j <= k IN
             Parsed([Package |-> SubSeq(s, 1, k - 1), Target |-> SubSeq(s, k + 1, Len(s))])
        ELSE IF plain(1, Len(s))
        THEN Parsed([Package |-> <<>>, Target |-> s])
        ELSE LabelPanic

\* A string of at most MaxLabelLen characters.
LabelInit ==
    /\ NoBuilder
    /\ NoPlanner
    /\ NoSnapshot
    /\ NoFileSystem
    /\ NoStreams
    /\ arg \in UNION { [1..m -> LabelChars] : m \in 0..MaxLabelLen }
    /\ ret = <<>>

\* ParseLabel(s).
CallParseLabel ==
    /\ ret = <<>>
    /\ ret' = <<ParseLabel(arg)>>
    /\ UNCHANGED <<bvars, pvars, svars, fvars, tvars, arg>>

LabelNext == CallParseLabel

LabelSpec == LabelInit /\ [][LabelNext]_vars

(***************************************************************************)
(* hashTarget on the declared inputs and the commands of a target.  The    *)
(* SHA-256 digest is written as the bytes it is taken of.                  *)
(***************************************************************************)
\* The byte 0, written as a bar.
Nul == "|"

\* The strings that the inputs, the arguments and the shell sources of a
\* hashed target are taken from.
Words == {"", "x", "exec", "shell", Nul}

\* An ExecCommand with the given Args and a ShellCommand with the given Source.
ExecCommand(args) == [kind |-> "exec", Args |-> args, Source |-> ""]

ShellCommand(source) == [kind |-> "shell", Args |-> <<>>, Source |-> source]

RECURSIVE writeStrings(_)
\* writeStrings: every string followed by a byte 0.
writeStrings(a) ==
    IF a = <<>> THEN "" ELSE Head(a) \o Nul \o writeStrings(Tail(a))

\* The bytes of a command without the name of its kind.
hashCommandNoKind(c) ==
    IF c.kind = "exec" THEN writeStrings(c.Args) ELSE c.Source

\* The case of hashTarget's loop for one command: "exec" and the arguments,
\* each followed by a byte 0, or "shell" and the source.
hashCommand(c) ==
    IF c.kind = "exec" THEN "exec" \o writeStrings(c.Args) ELSE "shell" \o c.Source

RECURSIVE hashCommands(_)
\* The loop of hashTarget over t.Commands.
hashCommands(cmds) ==
    IF cmds = <<>> THEN "" ELSE hashCommand(Head(cmds)) \o hashCommands(Tail(cmds))

\* hashTarget on a target given by its fields: the declared inputs, then
\* the commands.
hashTargetOf(t) == writeStrings(t.Dependencies) \o hashCommands(t.Commands)

\* No builder, planner, snapshot, file system or stream is at work.
OnlyCall ==
    /\ NoBuilder
    /\ NoPlanner
    /\ NoSnapshot
    /\ NoFileSystem
    /\ NoStreams

\* Two targets with the same declared inputs, one with a single exec command
\* and one with a single shell command.
ExecShellInit ==
    /\ OnlyCall
    /\ \E deps \in SeqUpTo(Words, MaxDeps) : \E args \in SeqUpTo(Words, MaxArgs) :
       \E source \in Words :
          arg = << [Dependencies |-> deps, Commands |-> <<ExecCommand(args)>>],
                   [Dependencies |-> deps, Commands |-> <<ShellCommand(source)>>] >>
    /\ ret = <<>>

\* The commands a hashed target can have.
HashedCommands ==
    { ExecCommand(args) : args \in SeqUpTo(Words, MaxArgs) }
        \cup { ShellCommand(source) : source \in Words }

\* The targets that are hashed.
HashedTargets ==
    [Dependencies : SeqUpTo(Words, MaxDeps), Commands : SeqUpTo(HashedCommands, MaxHashCmds)]

\* Any two targets.
HashInit ==
    /\ OnlyCall
    /\ arg \in HashedTargets \X HashedTargets
    /\ ret = <<>>

\* hashTarget(t) when AddTarget records t and hashTarget(t') when
\* IsTargetDirty compares.
CallHashTarget ==
    /\ ret = <<>>
    /\ ret' = <<hashTargetOf(arg[1]), hashTargetOf(arg[2])>>
    /\ UNCHANGED <<bvars, pvars, svars, fvars, tvars, arg>>

HashNext == CallHashTarget

ExecShellSpec == ExecShellInit /\ [][HashNext]_vars

HashSpec == HashInit /\ [][HashNext]_vars

(***************************************************************************)
(* The Build node under callers of Done.                                   *)
(***************************************************************************)
\* Builds made by newBuild, with no Builder running.
DoneInit ==
    /\ NoBuilder
    /\ NoPlanner
    /\ NoSnapshot
    /\ NoFileSystem
    /\ NoStreams
    /\ NoCall

\* A caller calls build.Done(e) on build k; a panic ends the process.
CallDone(k, e) ==
    /\ ~panicked
    /\ Done(k, e)
    /\ UNCHANGED <<dependencies, commands, builds, closing, pc, reserved, n, ci, obs, roots,
                   cmdlog, snaplog, writes, pvars, svars, fvars, tvars, hvars>>

DoneNext == \E k \in Nodes : \E e \in Errs : CallDone(k, e)

DoneSpec == DoneInit /\ [][DoneNext]_vars

(***************************************************************************)
(* The Snapshot under concurrent callers, with the project root changing.  *)
(***************************************************************************)
\* The package of the snapshot's targets: B depends on C, and C on the file E.
SnapPkg ==
    << [Name |-> "B", Inputs |-> <<"C">>, Outputs |-> <<>>],
       [Name |-> "C", Inputs |-> <<"E">>, Outputs |-> <<>>] >>

\* The targets, by their position in the package.
SnapTargets == 1..Len(SnapPkg)

\* The files of the project root, by number.
SnapFiles == {1, 2}

\* The path of a file under the project root.
FileName(f) == IF f = 1 THEN "E" ELSE "F"

\* Every stored target is clean.
AllClean ==
    \A t \in DOMAIN store :
        store[t].exists => IsTargetDirty(t) = [dirty |-> FALSE, err |-> Nil]

\* A change of the bytes or the mtime of file f as the last operation, and
\* whether every stored target was clean before it.
Op(name, f) == [op |-> name, file |-> f, clean |-> AllClean]

\* Any other operation as the last operation.
OtherOp == [op |-> "other", file |-> 0, clean |-> FALSE]

\* The names that the entries of a directory can have.
DirEntries == {1, 2}

\* NewSnapshot(path, root) on an empty snapshot path; in the project root 1
\* is a regular file, or a name that no file has yet, and 2 is a directory
\* with one entry.
SnapInit ==
    /\ NoBuilder
    /\ NoFileSystem
    /\ NoStreams
    /\ NoCall
    /\ pkg = SnapPkg
    /\ requests = <<"B">>
    /\ changeset = {}
    /\ plan = <<>>
    /\ \E first \in {RegularFile(0, 1, 0), NoFile} :
          disk = [f \in SnapFiles |-> IF f = 1 THEN first ELSE Directory({1})]
    /\ thash = [t \in SnapTargets |-> 0]
    /\ store = [t \in SnapTargets |-> NoSnapshotFile]
    /\ seen = [t \in SnapTargets |-> <<>>]
    /\ FreshSnapshot

\* Snapshot.AddTarget up to the call of writeTarget, by the first goroutine
\* that is not inside AddTarget: the files are stat'ed and hashed and the
\* target is hashed.  saw is the state of the target and of the inputs.
SnapStat(c, t, inputs) ==
    /\ client[c].pc = "idle"
    /\ \A o \in Clients : o < c => client[o].pc # "idle"
    /\ client' = [client EXCEPT ![c] =
                     [pc |-> "stat", t |-> t,
                      ts |-> targetSnapshot(t, stringSetSlice(inputs)),
                      saw |-> <<[thash |-> thash[t], disk |-> [f \in inputs |-> disk[f]]]>>]]
    /\ lastop' = OtherOp
    /\ UNCHANGED <<bvars, pvars, fvars, tvars, hvars, disk, thash, store, seen, used>>

\* writeTarget, ioutil.WriteFile: the file of the target is opened with
\* O_CREATE and O_TRUNC, which leaves it empty.
SnapOpen(c) ==
    /\ client[c].pc = "stat"
    /\ store' = [store EXCEPT ![client[c].t] = [exists |-> TRUE, buf |-> <<>>, torn |-> FALSE]]
    /\ seen' = [seen EXCEPT ![client[c].t] = <<>>]
    /\ client' = [client EXCEPT ![c].pc = "opened"]
    /\ lastop' = OtherOp
    /\ UNCHANGED <<bvars, pvars, fvars, tvars, hvars, disk, thash, used>>

\* writeTarget, ioutil.WriteFile: the marshalled snapshot is written and the
\* file closed; AddTarget returns nil.  What AddTarget found is remembered
\* unless another writer had the file of the target open at the same time.
SnapWrite(c) ==
    LET t == client[c].t IN
    /\ client[c].pc = "opened"
    /\ store' = [store EXCEPT ![t].buf = WriteAt0(@, Marshal(client[c].ts))]
    /\ seen' = [seen EXCEPT ![t] =
                   IF /\ store[t].buf = <<>>
                      /\ \A o \in Clients \ {c} : client[o].pc = "opened" => client[o].t # t
                   THEN client[c].saw
                   ELSE <<>>]
    /\ client' = [client EXCEPT ![c] = [IdleClient EXCEPT !.pc = "returned"]]
    /\ lastop' = OtherOp
    /\ UNCHANGED <<bvars, pvars, fvars, tvars, hvars, disk, thash, used>>

\* The process is terminated while a caller is in ioutil.WriteFile: the first
\* k fields of its buffer have reached the file, or (torn) the file ends
\* inside the first field.
SnapKill(c, k, torn) ==
    LET t == client[c].t IN
    /\ client[c].pc = "opened"
    /\ k <= Len(Marshal(client[c].ts))
    /\ torn => k = 0
    /\ store' = [store EXCEPT ![t] =
                    [exists |-> TRUE,
                     buf |-> WriteAt0(@.buf, SubSeq(Marshal(client[c].ts), 1, k)),
                     torn |-> torn]]
    /\ client' = [o \in Clients |-> [IdleClient EXCEPT !.pc = "killed"]]
    /\ lastop' = OtherOp
    /\ UNCHANGED <<bvars, pvars, fvars, tvars, hvars, disk, thash, seen, used>>

\* A change of the project root is counted.
Changed ==
    /\ used < MaxChanges
    /\ used' = used + 1

\* One byte of a regular file is changed, with or without a new mtime.
FlipByte(f, keep) ==
    /\ disk[f].kind = "file"
    /\ Changed
    /\ disk' = [disk EXCEPT ![f].content = 1 - @,
                            ![f].mtime = IF keep THEN @ ELSE @ + 1]
    /\ lastop' = Op("flip", f)
    /\ UNCHANGED <<bvars, pvars, fvars, tvars, hvars, thash, store, client, seen>>

\* The mtime of a regular file is advanced; its bytes stay.
Touch(f) ==
    /\ disk[f].kind = "file"
    /\ Changed
    /\ disk' = [disk EXCEPT ![f].mtime = @ + 1]
    /\ lastop' = Op("touch", f)
    /\ UNCHANGED <<bvars, pvars, fvars, tvars, hvars, thash, store, client, seen>>

\* A file or directory is removed, or a missing file is created.
RemoveOrCreate(f) ==
    /\ Changed
    /\ disk' = [disk EXCEPT ![f] = IF @.kind = "none" THEN RegularFile(0, 1, 0) ELSE NoFile]
    /\ lastop' = OtherOp
    /\ UNCHANGED <<bvars, pvars, fvars, tvars, hvars, thash, store, client, seen>>

\* The entry e is added to a directory, or removed from it.
ChangeEntry(f, e) ==
    /\ disk[f].kind = "dir"
    /\ Changed
    /\ disk' = [disk EXCEPT ![f].names = IF e \in @ THEN @ \ {e} ELSE @ \cup {e}]
    /\ lastop' = OtherOp
    /\ UNCHANGED <<bvars, pvars, fvars, tvars, hvars, thash, store, client, seen>>

\* The mtime of a directory is advanced; its entries stay.
TouchDir(f) ==
    /\ disk[f].kind = "dir"
    /\ Changed
    /\ disk' = [disk EXCEPT ![f].mtime = @ + 1]
    /\ lastop' = OtherOp
    /\ UNCHANGED <<bvars, pvars, fvars, tvars, hvars, thash, store, client, seen>>

\* An entry of a directory is rewritten: its bytes, size and mtime change,
\* the names of the directory stay.
RewriteEntry(f) ==
    /\ disk[f].kind = "dir"
    /\ disk[f].names # {}
    /\ Changed
    /\ disk' = [disk EXCEPT ![f].content = 1 - @]
    /\ lastop' = OtherOp
    /\ UNCHANGED <<bvars, pvars, fvars, tvars, hvars, thash, store, client, seen>>

\* The commands or the inputs of a target are edited.
EditTarget(t) ==
    /\ Changed
    /\ thash' = [thash EXCEPT ![t] = @ + 1]
    /\ lastop' = OtherOp
    /\ UNCHANGED <<bvars, pvars, fvars, tvars, hvars, disk, store, client, seen>>

\* The next planning run after a byte of a file has changed: Plan is called
\* with no changeset, as cmd/bake does, or with the changed file.
Replan(cs) ==
    /\ lastop.op = "flip"
    /\ plan = <<>>
    /\ cs \in {{}, {FileName(lastop.file)}}
    /\ changeset' = cs
    /\ plan' = <<Plan(pkg, requests, cs)>>
    /\ lastop' = [lastop EXCEPT !.op = "plan"]
    /\ UNCHANGED <<bvars, fvars, tvars, hvars, pkg, requests, disk, thash, store, client, seen, used>>

SnapNext ==
    \/ \E c \in Clients : \E t \in SnapTargets : \E inputs \in SUBSET SnapFiles :
          SnapStat(c, t, inputs)
    \/ \E c \in Clients : SnapOpen(c)
    \/ \E c \in Clients : SnapWrite(c)
    \/ \E c \in Clients : \E k \in 0..(2 + Cardinality(SnapFiles)) : \E torn \in BOOLEAN :
          SnapKill(c, k, torn)
    \/ \E f \in SnapFiles : \E keep \in BOOLEAN : FlipByte(f, keep)
    \/ \E f \in SnapFiles : Touch(f)
    \/ \E f \in SnapFiles : RemoveOrCreate(f)
    \/ \E f \in SnapFiles : \E e \in DirEntries : ChangeEntry(f, e)
    \/ \E f \in SnapFiles : TouchDir(f)
    \/ \E f \in SnapFiles : RewriteEntry(f)
    \/ \E t \in SnapTargets : EditTarget(t)
    \/ \E cs \in SUBSET { FileName(f) : f \in SnapFiles } : Replan(cs)

SnapSpec == SnapInit /\ [][SnapNext]_vars

(***************************************************************************)
(* The files under the snapshot path.  A target name is the sequence of    *)
(* its elements between slashes; a path is taken relative to ss.path.      *)
(***************************************************************************)
\* The names of the targets that are recorded.
StoreNames == { <<"bin">>, <<"bin", "tool">>, <<".", "bin">>, <<"lib">> }

\* filepath.Join(ss.path, name): the cleaned path, without its "." elements.
filepathJoin(name) == SelectSeq(name, LAMBDA x : x # ".")

\* filepath.Dir(path).
Dir(path) == SubSeq(path, 1, Len(path) - 1)

\* The paths under the snapshot path that the names lead to.
StorePaths ==
    UNION { { SubSeq(filepathJoin(nm), 1, i) : i \in 1..Len(filepathJoin(nm)) } : nm \in StoreNames }

\* What a path under the snapshot path holds: nothing, a directory or a file.
NoEntry == [kind |-> "none", buf |-> <<>>]

DirEntry == [kind |-> "dir", buf |-> <<>>]

FileEntry(buf) == [kind |-> "file", buf |-> buf]

\* The errors of the operating system for a path through a file and for the
\* bytes of a directory.
ErrNotDir == "not a directory"

ErrIsDir == "is a directory"

RECURSIVE MkdirAll(_, _)
\* os.MkdirAll(dir, 0777) on the files st: nil when dir is a directory, an
\* error when it is a file, else the parents and then dir are made.
MkdirAll(st, dir) ==
    IF dir = <<>> THEN [err |-> Nil, st |-> st]
    ELSE IF st[dir].kind = "dir" THEN [err |-> Nil, st |-> st]
    ELSE IF st[dir].kind = "file" THEN [err |-> ErrNotDir, st |-> st]
    ELSE LET r == MkdirAll(st, Dir(dir)) IN
         IF r.err # Nil THEN r
         ELSE [err |-> Nil, st |-> [r.st EXCEPT ![dir] = DirEntry]]

\* ioutil.WriteFile(path, buf, 0666) in an existing directory.
WriteFile(st, path, buf) ==
    IF st[path].kind = "dir" THEN [err |-> ErrIsDir, st |-> st]
    ELSE [err |-> Nil, st |-> [st EXCEPT ![path] = FileEntry(buf)]]

\* Snapshot.writeTarget: the parent directories are made, then the file of
\* the target is written.
writeTarget(st, ts) ==
    LET path == filepathJoin(ts.name)
        r == MkdirAll(st, Dir(path))
    IN  IF r.err # Nil THEN r ELSE WriteFile(r.st, path, Marshal(ts))

\* ioutil.ReadFile(path): the error of the first element of the path that is
\* a file or missing, the error for a directory, else the bytes.
ReadFile(st, path) ==
    LET stops == { i \in 1..Len(path) - 1 : st[SubSeq(path, 1, i)].kind # "dir" } IN
    IF stops # {}
    THEN LET i == CHOOSE i \in stops : \A j \in stops : i <= j IN
         [err |-> IF st[SubSeq(path, 1, i)].kind = "file" THEN ErrNotDir ELSE ErrNotExist,
          buf |-> <<>>]
    ELSE IF st[path].kind = "none" THEN [err |-> ErrNotExist, buf |-> <<>>]
    ELSE IF st[path].kind = "dir" THEN [err |-> ErrIsDir, buf |-> <<>>]
    ELSE [err |-> Nil, buf |-> st[path].buf]

\* Snapshot.readTarget on the files under the snapshot path.
readTargetFile(st, name) ==
    LET r == ReadFile(st, filepathJoin(name)) IN
    IF r.err = ErrNotExist
    THEN [err |-> ErrSnapshotTargetNotFound, ts |-> [name |-> 0, hash |-> <<>>, inputs |-> <<>>]]
    ELSE IF r.err # Nil
    THEN [err |-> r.err, ts |-> [name |-> 0, hash |-> <<>>, inputs |-> <<>>]]
    ELSE Unmarshal(r.buf, FALSE)

\* NewSnapshot on an empty snapshot path.
StoreInit ==
    /\ NoBuilder
    /\ NoPlanner
    /\ NoFileSystem
    /\ NoStreams
    /\ NoCall
    /\ disk = <<>>
    /\ thash = <<>>
    /\ seen = [nm \in StoreNames |-> <<>>]
    /\ FreshSnapshot
    /\ store = [p \in StorePaths |-> NoEntry]

\* Snapshot.AddTarget for a target of the given name and hash that has no
\* input files; ret holds the name and the error of the call, and seen the
\* snapshot that the last call without error recorded for the name.
AddTargetNamed(name, h) ==
    LET ts == [name |-> name, hash |-> <<"target", h>>, inputs |-> <<>>]
        r == writeTarget(store, ts)
    IN
    /\ used < MaxAdds
    /\ used' = used + 1
    /\ store' = r.st
    /\ ret' = <<[name |-> name, err |-> r.err]>>
    /\ seen' = IF r.err = Nil THEN [seen EXCEPT ![name] = <<ts>>] ELSE seen
    /\ UNCHANGED <<bvars, pvars, fvars, tvars, arg, disk, thash, client, lastop>>

StoreNext == \E name \in StoreNames : \E h \in {0, 1} : AddTargetNamed(name, h)

StoreSpec == StoreInit /\ [][StoreNext]_vars

(***************************************************************************)
(* The 9p FileSystem: tracking roots, file handles and the go9p callbacks. *)
(***************************************************************************)
RECURSIVE BitAnd(_, _)
\* a & b on natural numbers.
BitAnd(a, b) ==
    IF a = 0 \/ b = 0 THEN 0
    ELSE (a % 2) * (b % 2) + 2 * BitAnd(a \div 2, b \div 2)

\* FileSystem.path, the directory that is served, as its path segments.
FsPath == <<"srv">>

\* The names of the entries of the served directory.
FileNames == {"a", "b"}

\* fmt.Sprintf("%04x", id) for the ids of the roots.
Sprintf04x(id) == "000" \o ToString(id)

\* A file handle that is not in use.
\* via is the root by whose path the client has reached it: the name after
\* which the attach name goes on ("/id/..."), else the first name walked.
NoAux == [used |-> FALSE, rootID |-> "", path |-> <<>>, file |-> FALSE, omode |-> OREAD,
          via |-> ""]

\* The file handles of the connection.
Fids == {1, 2}

\* strings.TrimPrefix(filename, prefix) on path segments.
TrimPrefix(filename, prefix) ==
    IF Len(filename) >= Len(prefix) /\ SubSeq(filename, 1, Len(prefix)) = prefix
    THEN SubSeq(filename, Len(prefix) + 1, Len(filename))
    ELSE filename

\* addToReadset that adds the name to the readset of every root.
addToReadsetAll(rs, rootID, filename) ==
    [r \in DOMAIN rs |-> [rs[r] EXCEPT !.readset = @ \cup {TrimPrefix(filename, FsPath)}]]

\* fileSystem.addToReadset: nothing when there is no root rootID.
addToReadset(rs, rootID, filename) ==
    IF rootID \notin DOMAIN rs THEN rs
    ELSE [rs EXCEPT ![rootID].readset = @ \cup {TrimPrefix(filename, FsPath)}]

\* fileSystem.addToWriteset: nothing when there is no root rootID.
addToWriteset(rs, rootID, filename) ==
    IF rootID \notin DOMAIN rs THEN rs
    ELSE [rs EXCEPT ![rootID].writeset = @ \cup {TrimPrefix(filename, FsPath)}]

\* split: the root name and the remaining path of an attach name, which is
\* given by its segments after the leading slash ("/0000/" is <<"0000", "">>).
split(s) ==
    IF Len(s) < 2 THEN [root |-> "", filename |-> <<>>]
    ELSE [root |-> s[1], filename |-> Tail(s)]

\* path.Join of two paths: empty segments are dropped.
Join(p, q) == p \o SelectSeq(q, LAMBDA x : x # "")

\* os.Lstat succeeds: the served directory and its entries exist.
Lstat(p) == p = FsPath \/ p \in DOMAIN tree

\* The path is a directory.
IsDir(p) == p = FsPath \/ (p \in DOMAIN tree /\ tree[p] = "dir")

\* The request that has just been served through handle f on path p, with
\* the open mode of an open or create and the new path of a rename.
Req(name, mode, f, p, d) ==
    [op |-> name, mode |-> mode, via |-> fids[f].via, path |-> p, dest |-> d,
     count |-> lastreq.count + 1]

\* Another request may be served.
MoreReqs == lastreq.count < MaxReqs

\* FileSystem.CreateRoot.
CreateRoot ==
    LET id == Sprintf04x(Cardinality(DOMAIN fsroots)) IN
    /\ Cardinality(DOMAIN fsroots) < MaxRoots
    /\ fsroots' = [r \in DOMAIN fsroots \cup {id} |->
                      IF r = id THEN NewFileSystemRoot ELSE fsroots[r]]
    /\ UNCHANGED <<bvars, pvars, svars, tvars, hvars, fids, tree, lastreq>>

\* fileSystem.Attach for the attach name aname: a handle on the served
\* directory, or on a path of a root.
Attach(f, aname) ==
    LET s == split(aname)
        p == Join(FsPath, s.filename)
    IN
    /\ MoreReqs
    /\ ~fids[f].used
    /\ \A o \in Fids : o < f => fids[o].used
    /\ Lstat(p)
    /\ fids' = [fids EXCEPT ![f] =
                   [NoAux EXCEPT !.used = TRUE, !.rootID = s.root, !.path = p,
                                  !.via = s.root]]
    /\ lastreq' = Req("attach", OREAD, f, p, <<>>)
    /\ UNCHANGED <<bvars, pvars, svars, tvars, hvars, fsroots, tree>>

RECURSIVE walkNames(_, _, _)
\* The loop of Walk over the names from index i on.  w holds the handle's
\* rootID, the path walked so far, the number of names walked and the error.
walkNames(wname, i, w) ==
    IF i > Len(wname) THEN w
    ELSE IF w.rootID = ""
    THEN IF wname[i] \notin DOMAIN fsroots
         THEN [w EXCEPT !.rootID = wname[i], !.err = TRUE]
         ELSE walkNames(wname, i + 1, [w EXCEPT !.rootID = wname[i], !.nwqid = @ + 1])
    ELSE LET p == Append(w.path, wname[i]) IN
         IF ~Lstat(p)
         THEN IF i = 1 THEN [w EXCEPT !.err = TRUE] ELSE w
         ELSE walkNames(wname, i + 1, [w EXCEPT !.path = p, !.nwqid = @ + 1])

\* fileSystem.Walk from handle f to the handle nf, which is f itself or a
\* new handle.  The 9p client takes the new handle only when every name has
\* been walked; a failed walk of the handle itself leaves in it what the loop
\* has assigned before the error.
Walk(f, nf, wname) ==
    LET aux == fids[f]
        w == walkNames(wname, 1, [rootID |-> aux.rootID, path |-> aux.path, nwqid |-> 0, err |-> FALSE])
        walked == ~w.err /\ w.nwqid = Len(wname)
    IN
    /\ MoreReqs
    /\ aux.used
    /\ ~aux.file
    /\ Lstat(aux.path)
    /\ nf = f \/ (~fids[nf].used /\ \A o \in Fids : o < nf => fids[o].used)
    /\ fids' = [fids EXCEPT ![nf] =
                   IF walked
                   THEN [NoAux EXCEPT !.used = TRUE, !.rootID = w.rootID, !.path = w.path,
                                      !.via = IF aux.via = "" /\ wname # <<>>
                                              THEN wname[1] ELSE aux.via]
                   ELSE IF nf = f
                   THEN [aux EXCEPT !.rootID = w.rootID,
                                    !.path = IF w.err THEN @ ELSE w.path]
                   ELSE NoAux]
    /\ lastreq' = Req(IF walked THEN "walk" ELSE "walk failed", OREAD, f, aux.path, <<>>)
    /\ UNCHANGED <<bvars, pvars, svars, tvars, hvars, fsroots, tree>>

\* fileSystem.Open with the given mode; a directory cannot be opened for
\* writing.
Open(f, mode) ==
    LET aux == fids[f] IN
    /\ MoreReqs
    /\ aux.used
    /\ ~aux.file
    /\ Lstat(aux.path)
    /\ IF IsDir(aux.path) /\ mode \in {OWRITE, ORDWR}
       THEN /\ lastreq' = Req("open failed", mode, f, aux.path, <<>>)
            /\ UNCHANGED <<fsroots, fids>>
       ELSE /\ fids' = [fids EXCEPT ![f].file = TRUE, ![f].omode = mode]
            /\ fsroots' =
                 IF BitAnd(mode, OREAD) # 0
                 THEN addToReadset(fsroots, aux.rootID, aux.path)
                 ELSE IF BitAnd(mode, OWRITE) # 0
                 THEN addToWriteset(fsroots, aux.rootID, aux.path)
                 ELSE IF BitAnd(mode, ORDWR) # 0
                 THEN addToWriteset(addToReadset(fsroots, aux.rootID, aux.path),
                                    aux.rootID, aux.path)
                 ELSE fsroots
            /\ lastreq' = Req("open", mode, f, aux.path, <<>>)
    /\ UNCHANGED <<bvars, pvars, svars, tvars, hvars, tree>>

\* fileSystem.Create of a file or (dir) a directory called name in the
\* directory of handle f, opened with the given mode.  The entry is made
\* first and then opened; a directory cannot be opened for writing.
Create(f, name, dir, mode) ==
    LET aux == fids[f]
        path == Append(aux.path, name)
        made == ~Lstat(path)
        opened == IF dir THEN made /\ mode \notin {OWRITE, ORDWR}
                  ELSE ~IsDir(path)
    IN
    /\ MoreReqs
    /\ aux.used
    /\ ~aux.file
    /\ aux.path = FsPath
    /\ tree' = IF made
               THEN [p \in DOMAIN tree \cup {path} |->
                        IF p = path THEN (IF dir THEN "dir" ELSE "file") ELSE tree[p]]
               ELSE tree
    /\ IF opened
       THEN /\ fids' = [fids EXCEPT ![f].path = path, ![f].file = TRUE, ![f].omode = mode]
            /\ fsroots' = addToWriteset(fsroots, aux.rootID, path)
            /\ lastreq' = Req("create", mode, f, path, <<>>)
       ELSE /\ lastreq' = Req(IF made THEN "create failed" ELSE "none", mode, f, path, <<>>)
            /\ UNCHANGED <<fsroots, fids>>
    /\ UNCHANGED <<bvars, pvars, svars, tvars, hvars>>

\* fileSystem.Read through an open handle.
Read(f) ==
    LET aux == fids[f] IN
    /\ MoreReqs
    /\ aux.used
    /\ aux.file
    /\ aux.omode # OWRITE
    /\ Lstat(aux.path)
    /\ fsroots' = addToReadset(fsroots, aux.rootID, aux.path)
    /\ lastreq' = Req("read", OREAD, f, aux.path, <<>>)
    /\ UNCHANGED <<bvars, pvars, svars, tvars, hvars, fids, tree>>

\* fileSystem.Write through a handle open for writing; the path is added to
\* the writeset before the bytes are written.
Write(f) ==
    LET aux == fids[f] IN
    /\ MoreReqs
    /\ aux.used
    /\ aux.file
    /\ aux.omode # OREAD
    /\ Lstat(aux.path)
    /\ ~IsDir(aux.path)
    /\ fsroots' = addToWriteset(fsroots, aux.rootID, aux.path)
    /\ lastreq' = Req("write", OREAD, f, aux.path, <<>>)
    /\ UNCHANGED <<bvars, pvars, svars, tvars, hvars, fids, tree>>

\* fileSystem.Remove; the 9p server then drops the handle.
Remove(f) ==
    LET aux == fids[f] IN
    /\ MoreReqs
    /\ aux.used
    /\ aux.path # FsPath
    /\ Lstat(aux.path)
    /\ fsroots' = addToWriteset(fsroots, aux.rootID, aux.path)
    /\ tree' = [p \in DOMAIN tree \ {aux.path} |-> tree[p]]
    /\ fids' = [fids EXCEPT ![f] = NoAux]
    /\ lastreq' = Req("remove", OREAD, f, aux.path, <<>>)
    /\ UNCHANGED <<bvars, pvars, svars, tvars, hvars>>

\* syscall.Rename succeeds: onto the file itself, a new name, or from a file
\* onto a file.
Rename(oldpath, newpath) ==
    IF newpath = oldpath \/ ~Lstat(newpath) THEN TRUE
    ELSE tree[newpath] = "file" /\ tree[oldpath] = "file"

\* fileSystem.Wstat: the path of the handle is added to the writeset, then
\* the mode, owner, length and times are set as asked, and the file is renamed
\* when name is not empty ("" for no rename).
Wstat(f, name) ==
    LET aux == fids[f]
        destpath == IF name = "" THEN aux.path
                    ELSE Append(SubSeq(aux.path, 1, Len(aux.path) - 1), name)
    IN
    /\ MoreReqs
    /\ aux.used
    /\ aux.path # FsPath
    /\ Lstat(aux.path)
    /\ Rename(aux.path, destpath)
    /\ fsroots' = addToWriteset(fsroots, aux.rootID, aux.path)
    /\ tree' = [p \in (DOMAIN tree \ {aux.path}) \cup {destpath} |->
                  IF p = destpath THEN tree[aux.path] ELSE tree[p]]
    /\ fids' = [fids EXCEPT ![f].path = destpath]
    /\ lastreq' = Req(IF name = "" THEN "wstat" ELSE "rename", OREAD, f, aux.path, destpath)
    /\ UNCHANGED <<bvars, pvars, svars, tvars, hvars>>

\* fileSystem.Clunk and FidDestroy: the handle is given up.
Clunk(f) ==
    /\ MoreReqs
    /\ fids[f].used
    /\ fids' = [fids EXCEPT ![f] = NoAux]
    /\ lastreq' = Req("clunk", OREAD, f, fids[f].path, <<>>)
    /\ UNCHANGED <<bvars, pvars, svars, tvars, hvars, fsroots, tree>>

\* NewFileSystem(path) and Open: no roots, no handles, and a served
\* directory that holds the file a.
FsInit ==
    /\ NoBuilder
    /\ NoPlanner
    /\ NoSnapshot
    /\ fsroots = <<>>
    /\ fids = [f \in Fids |-> NoAux]
    /\ tree = [p \in {Append(FsPath, "a")} |-> "file"]
    /\ lastreq = NoReq
    /\ NoStreams
    /\ NoCall

\* The attach names of a client: "/" for the served directory, and for a
\* root "/id" and "/id/".
AttachNames == {<<>>} \cup { <<Sprintf04x(i)>> : i \in 0..(MaxRoots - 1) }
                 \cup { <<Sprintf04x(i), "">> : i \in 0..(MaxRoots - 1) }

\* The names of a walk: a root, a file, or a root and a file.
WalkNames == {<<>>} \cup { <<Sprintf04x(i)>> : i \in 0..(MaxRoots - 1) }
               \cup { <<x>> : x \in FileNames }
               \cup { <<Sprintf04x(i), x>> : i \in 0..(MaxRoots - 1), x \in FileNames }

FsNext ==
    \/ CreateRoot
    \/ \E f \in Fids : \E aname \in AttachNames : Attach(f, aname)
    \/ \E f, nf \in Fids : \E wname \in WalkNames : Walk(f, nf, wname)
    \/ \E f \in Fids : \E mode \in {OREAD, OWRITE, ORDWR} : Open(f, mode)
    \/ \E f \in Fids : \E name \in FileNames : \E dir \in BOOLEAN :
       \E mode \in {OREAD, OWRITE} : Create(f, name, dir, mode)
    \/ \E f \in Fids : Read(f)
    \/ \E f \in Fids : Write(f)
    \/ \E f \in Fids : Remove(f)
    \/ \E f \in Fids : \E name \in FileNames \cup {""} : Wstat(f, name)
    \/ \E f \in Fids : Clunk(f)

FsSpec == FsInit /\ [][FsNext]_vars

(***************************************************************************)
(* Properties of the Builder.                                              *)
(***************************************************************************)
\* The goroutines started for build k.
WorkersOf(k) == { w \in Workers : NodeOf(w) = k }

\* The goroutine's call of Builder.build has returned.
BuildReturned(w) == pc[w] \in {"send", "exit", "close", "wgwait", "returned"}

\* The builds that have k among their transitive dependencies.
Ancestors(k) == { a \in Nodes \ {k} : k \in Reach(dependencies, a) }

\* A command of build k has failed.
CommandFailed(k) == \E j \in 1..Len(cmdlog[k]) : cmdlog[k][j].res = "fail"

\* Build k has entered its execution step and all its commands returned success.
CommandsSucceeded(k) ==
    /\ \E w \in WorkersOf(k) : roots[w].created
    /\ Len(cmdlog[k]) = commands[k]
    /\ \A j \in 1..Len(cmdlog[k]) : cmdlog[k][j].res = "ok"

\* Builder.Build has returned and no call of Builder.build is still running.
RunFinished ==
    /\ pc[Main] = "returned"
    /\ \A w \in Workers : pc[w] \in {"idle", "send", "exit", "returned"}

\* C1: reserve grants every build to at most one goroutine, so its commands
\* are started at most once; a goroutine that was refused returns only after
\* done has fired, and the error a parent reads from a received build is the
\* error stored in the build by the goroutine that ran it.
C1_SingleExecution ==
    \A k \in Nodes :
        /\ Cardinality({ w \in WorkersOf(k) : reserved[w] = "granted" }) <= 1
        /\ \A i, j \in 1..Len(cmdlog[k]) : i # j => cmdlog[k][i].cmd # cmdlog[k][j].cmd
        /\ \A w \in WorkersOf(k) :
            /\ reserved[w] = "refused" /\ BuildReturned(w) => Wait(k)
            /\ obs[w] # "unread" => Wait(k) /\ obs[w] = err[k]

\* C1 witness: a build shared by two parents failed; one goroutine was
\* granted it, another was refused, and both parents have read its error.
C1_Witness ==
    \E k \in Nodes : \E w, v \in WorkersOf(k) :
        /\ reserved[w] = "granted" /\ reserved[v] = "refused"
        /\ obs[w] = CmdErr /\ obs[v] = CmdErr

\* C2: a build has started a command only if every one of its dependencies
\* has fired done with a nil error; a build with a failed dependency has
\* started none.
C2_DependenciesFirst ==
    \A k \in Nodes :
        cmdlog[k] # <<>> =>
            \A i \in 1..Len(dependencies[k]) :
                Wait(dependencies[k][i]) /\ err[dependencies[k][i]] = Nil

\* C2 witness: a build with two dependencies runs a command while another
\* build of the graph has failed.
C2_Witness ==
    \E k \in Nodes :
        /\ Len(dependencies[k]) = 2
        /\ cmdlog[k] # <<>>
        /\ \E b \in Nodes : err[b] = CmdErr

\* C3: the commands of a build are started one at a time in declared order,
\* each after all earlier ones returned success; a failed command is the last
\* one started, and its build is done with the command's error.
C3_SequentialCommands ==
    \A k \in Nodes :
        /\ Len(cmdlog[k]) <= commands[k]
        /\ \A j \in 1..Len(cmdlog[k]) :
            /\ cmdlog[k][j].cmd = j
            /\ j < Len(cmdlog[k]) => cmdlog[k][j].res = "ok"
            /\ cmdlog[k][j].res = "fail" => Wait(k) /\ err[k] = CmdErr

\* C3 witness: the first command of a build with two commands failed.
C3_Witness ==
    \E k \in Nodes :
        /\ commands[k] = 2
        /\ Len(cmdlog[k]) = 1
        /\ cmdlog[k][1].res = "fail"
        /\ pc[Main] = "returned"

\* C4: Done is called at most once on every build, and once done has fired
\* the build's error never changes.
C4_DoneOnce ==
    /\ [](\A k \in Nodes : done[k] <= 1 /\ ~panicked)
    /\ [][\A k \in Nodes : Wait(k) => err'[k] = err[k]]_vars

\* C4 witness: both goroutines started for a build shared by two parents
\* have returned, the build is done, and one of its parents was canceled.
C4_Witness ==
    \E k \in Nodes : \E w, v \in WorkersOf(k) :
        /\ w # v
        /\ BuildReturned(w) /\ BuildReturned(v)
        /\ done[k] = 1
        /\ \E a \in Nodes : k \in Reach(dependencies, a) /\ err[a] = ErrCanceled

\* C5 as claimed: once the run has finished, a build with a failed command
\* has the command's error and every ancestor of it has ErrDependency.
C5_AllAncestorsDependency ==
    RunFinished =>
        \A b \in Nodes :
            CommandFailed(b) =>
                /\ err[b] = CmdErr
                /\ \A a \in Ancestors(b) : err[a] = ErrDependency

\* C5 amended: once the run has finished, a build with a failed command has
\* the command's error, the top-level build has ErrDependency, and every
\* ancestor of the failed build has ErrDependency or ErrCanceled; an ancestor
\* that is done while the closing channel is still open has ErrDependency.
C5_AncestorsFail ==
    /\ RunFinished =>
        \A b \in Nodes :
            CommandFailed(b) =>
                /\ err[b] = CmdErr
                /\ err[Top] = ErrDependency
                /\ \A a \in Ancestors(b) : err[a] \in {ErrDependency, ErrCanceled}
    /\ \A b \in Nodes :
        CommandFailed(b) /\ ~closing =>
            \A a \in Ancestors(b) : Wait(a) => err[a] = ErrDependency

\* C5 witness: the run has finished, a build failed, and one of its ancestors
\* was canceled while another has ErrDependency.
C5_Witness ==
    /\ RunFinished
    /\ \E b \in Nodes :
        /\ CommandFailed(b)
        /\ \E a \in Ancestors(b) : err[a] = ErrCanceled
        /\ \E a \in Ancestors(b) \ {Top} : err[a] = ErrDependency

RECURSIVE Preorder(_)
RECURSIVE PreorderEach(_, _)
\* The pre-order walk from build k: k, then the walks of its dependencies.
Preorder(k) == <<k>> \o PreorderEach(k, 1)

\* The walks of the dependencies of k from index i on.
PreorderEach(k, i) ==
    IF i > Len(dependencies[k]) THEN <<>>
    ELSE Preorder(dependencies[k][i]) \o PreorderEach(k, i + 1)

\* The first error along a walk that is an original cause, else nil.
FirstCause(walk) ==
    LET causes == { j \in 1..Len(walk) : err[walk[j]] \notin {Nil, ErrDependency, ErrCanceled} }
    IN  IF causes = {} THEN Nil
        ELSE err[walk[CHOOSE j \in causes : \A i \in causes : j <= i]]

\* C6: RootErr of any build is never ErrDependency or ErrCanceled; it is the
\* first original cause in the pre-order walk from the build, or nil.
C6_RootErr ==
    \A k \in Nodes :
        /\ RootErr(k) \notin {ErrDependency, ErrCanceled}
        /\ RootErr(k) = FirstCause(Preorder(k))

\* C6 witness: the top-level build has ErrDependency, a build on the walk
\* was canceled, and RootErr of the top-level build is the command's error.
C6_Witness ==
    /\ err[Top] = ErrDependency
    /\ \E k \in Nodes : err[k] = ErrCanceled
    /\ RootErr(Top) = CmdErr

\* C7 as claimed: when Builder.Build has returned, every goroutine started
\* for the run has terminated.
C7_NoWorkerLeft ==
    pc[Main] = "returned" => \A w \in Workers \ {Main} : pc[w] \in {"idle", "exit"}

\* C8 as claimed: a goroutine that is in the select of buildEach while the
\* closing channel is closed leaves the select only by ending its build with
\* ErrCanceled.
C8_CanceledInSelect ==
    [][\A w \in Workers :
          closing /\ pc[w] = "select" /\ pc'[w] # "select" =>
              pc'[w] = Returned(w) /\ err'[NodeOf(w)] = ErrCanceled]_vars

\* C9: AddTarget is called at most once per build, never for the top-level
\* build, only after all commands of the build returned success and with the
\* sorted read-set of the root created for that build; a finished build has
\* the call exactly if it ran all its commands with success, and a build that
\* ended with a command failure, ErrDependency or ErrCanceled has none.
C9_SnapshotOnSuccess ==
    \A k \in Nodes :
        /\ Len(snaplog[k]) <= 1
        /\ ~(k # Top) => snaplog[k] = <<>>
        /\ snaplog[k] # <<>> =>
            /\ CommandsSucceeded(k)
            /\ NodeOf(snaplog[k][1].root) = k
            /\ roots[snaplog[k][1].root].created
            /\ snaplog[k][1].inputs = SortedSeq({ FileOf(k, c) : c \in 1..commands[k] })
        /\ Wait(k) /\ k # Top => (snaplog[k] # <<>> <=> CommandsSucceeded(k))
        /\ err[k] \in {CmdErr, ErrDependency, ErrCanceled} => snaplog[k] = <<>>

\* C9 witness: the run has finished; one build with two commands recorded its
\* snapshot, another failed and a third was canceled, both without a snapshot.
C9_Witness ==
    /\ RunFinished
    /\ \E k \in Nodes : commands[k] = 2 /\ Len(snaplog[k]) = 1 /\ err[k] = Nil
    /\ \E k \in Nodes : err[k] = CmdErr /\ snaplog[k] = <<>>
    /\ \E k \in Nodes : err[k] = ErrCanceled /\ snaplog[k] = <<>>

(***************************************************************************)
(* Properties of the Planner.                                              *)
(***************************************************************************)
\* Plan has returned a build graph.
Planned == plan # <<>> /\ plan[1].err = Nil /\ plan[1].build # 0

RECURSIVE PlanReach(_, _)
\* The Build values reachable from build b in the heap h of a plan.
PlanReach(h, b) ==
    {b} \cup UNION { PlanReach(h, h[b].dependencies[i]) : i \in 1..Len(h[b].dependencies) }

\* The name of the target of build b of the plan.
PlanName(b) == pkg[plan[1].heap[b].target].Name

\* C10: in a graph returned by Plan no two Build nodes have the same target
\* name: dependencies on the same target are the identical node.
C10_OneNodePerTarget ==
    Planned =>
        \A x, y \in PlanReach(plan[1].heap, plan[1].build) \ {plan[1].build} :
            PlanName(x) = PlanName(y) => x = y

\* C10 witness: the diamond: the returned graph has two different nodes,
\* those of B and C, whose dependency lists hold the very same node of D.
C10_Witness ==
    /\ Planned
    /\ \E x, y \in PlanReach(plan[1].heap, plan[1].build) \ {plan[1].build} :
        /\ PlanName(x) = "B" /\ PlanName(y) = "C"
        /\ \E i \in 1..Len(plan[1].heap[x].dependencies) :
           \E j \in 1..Len(plan[1].heap[y].dependencies) :
            /\ plan[1].heap[x].dependencies[i] = plan[1].heap[y].dependencies[j]
            /\ PlanName(plan[1].heap[x].dependencies[i]) = "D"

\* The targets that target t lists as inputs, by name or by declared output.
TargetInputs(t) ==
    { Target(pkg, pkg[t].Inputs[i]) : i \in 1..Len(pkg[t].Inputs) } \ {0}

\* The inputs of target t that are files.
FileInputs(t) ==
    { pkg[t].Inputs[i] : i \in { j \in 1..Len(pkg[t].Inputs) : Target(pkg, pkg[t].Inputs[j]) = 0 } }

RECURSIVE DirtyUpTo(_)
\* The targets with a changed file input at most i target inputs away.
DirtyUpTo(i) ==
    IF i = 0 THEN { t \in 1..Len(pkg) : FileInputs(t) \cap changeset # {} }
    ELSE LET d == DirtyUpTo(i - 1)
         IN  d \cup { t \in 1..Len(pkg) : TargetInputs(t) \cap d # {} }

\* The targets that have a changed file input, directly or transitively.
DirtyTargets == DirtyUpTo(Len(pkg))

RECURSIVE DependsUpTo(_, _)
\* The targets at most i target inputs away from the targets of S.
DependsUpTo(S, i) ==
    IF i = 0 THEN {}
    ELSE LET d == DependsUpTo(S, i - 1)
         IN  d \cup UNION { TargetInputs(t) : t \in S \cup d }

\* The targets that target a depends on, directly or transitively.
DependsOn(a) == DependsUpTo({a}, Len(pkg))

\* The targets that have a node in the graph Plan returned.
PlannedTargets ==
    IF Planned
    THEN { plan[1].heap[x].target : x \in PlanReach(plan[1].heap, plan[1].build) \ {plan[1].build} }
    ELSE {}

\* C11: every target with a node in the returned graph is dirty, and a target
\* that a planned target depends on, directly or transitively, has a node in
\* the graph exactly if it has a changed file input, directly or transitively.
C11_PlannedIffDirty ==
    Planned =>
        /\ PlannedTargets \subseteq DirtyTargets
        /\ \A a \in PlannedTargets : \A b \in DependsOn(a) :
              b \in PlannedTargets <=> b \in DirtyTargets

\* C11 witness: a planned target depends on a dirty target, which is planned,
\* and on a clean target, which is not, and lists a changed file before them.
C11_Witness ==
    /\ Planned
    /\ \E a \in PlannedTargets : \E b, c \in DependsOn(a) :
        /\ b \in PlannedTargets /\ b \in DirtyTargets
        /\ c \notin PlannedTargets /\ c \notin DirtyTargets

\* C12 as claimed: no dependency list of a returned graph holds a Build node
\* twice.
C12_NoDuplicateDependency ==
    Planned =>
        \A b \in PlanReach(plan[1].heap, plan[1].build) :
            \A i, j \in 1..Len(plan[1].heap[b].dependencies) :
                i # j => plan[1].heap[b].dependencies[i] # plan[1].heap[b].dependencies[j]

\* The requested name is that of a dirty target.
IsDirtyRequest(name) == Target(pkg, name) \in DirtyTargets

\* C13: when Plan returns without error, it returns nil exactly if no
\* requested target is dirty; else the returned build has no target and its
\* dependencies are the nodes of the dirty requested targets in request order.
C13_NoPlanIffClean ==
    plan # <<>> /\ plan[1].err = Nil =>
        LET wanted == SelectSeq(requests, IsDirtyRequest) IN
        /\ plan[1].build = 0 <=> wanted = <<>>
        /\ plan[1].build # 0 =>
            LET top == plan[1].heap[plan[1].build] IN
            /\ top.target = 0
            /\ Len(top.dependencies) = Len(wanted)
            /\ \A i \in 1..Len(wanted) :
                  plan[1].heap[top.dependencies[i]].target = Target(pkg, wanted[i])

\* C13 witness: of two different requested targets the first is clean and the
\* second dirty, and the returned build has the one dependency.
C13_Witness ==
    /\ Planned
    /\ Len(requests) = 2
    /\ Target(pkg, requests[1]) \notin DirtyTargets \cup {0}
    /\ Target(pkg, requests[2]) \in DirtyTargets
    /\ Len(plan[1].heap[plan[1].build].dependencies) = 1

\* The targets reachable from the requested targets through inputs.
RequestedTargets ==
    LET asked == { Target(pkg, requests[i]) : i \in 1..Len(requests) } \ {0}
    IN  asked \cup DependsUpTo(asked, Len(pkg))

\* C14 as claimed: when Plan is given no changeset (nil, which it replaces by
\* the empty set) and every requested name resolves, every target reachable
\* from the requested targets has a node in the returned graph.
C14_ForcePlansAll ==
    /\ plan # <<>>
    /\ changeset = {}
    /\ \A i \in 1..Len(requests) : Target(pkg, requests[i]) # 0
    => RequestedTargets \subseteq PlannedTargets

\* C15 as claimed: Plan returns for every package; it never recurses until
\* the stack is exhausted.
C15_CycleDetected ==
    plan # <<>> => plan[1].err # StackOverflow

(***************************************************************************)
(* Properties of the Snapshot.                                             *)
(***************************************************************************)
\* IsTargetDirty returns false and no error.
Clean(t) == IsTargetDirty(t) = [dirty |-> FALSE, err |-> Nil]

Recorded(t) ==
    { readTarget(t).ts.inputs[i].name : i \in 1..Len(readTarget(t).ts.inputs) }

\* C16: once AddTarget has returned for a target, IsTargetDirty returns false
\* without error in every state in which the target's inputs and commands and
\* every file recorded in its snapshot are as AddTarget found them.
C16_CleanWhileUnchanged ==
    \A t \in SnapTargets :
        /\ seen[t] # <<>>
        /\ thash[t] = seen[t][1].thash
        /\ \A f \in Recorded(t) : disk[f] = seen[t][1].disk[f]
        => Clean(t)

\* C16 witness: two calls of AddTarget have returned; the one target, added
\* with a regular file and a directory as inputs, is clean, and the other,
\* which was edited afterwards, is dirty.
C16_Witness ==
    \E t, u \in SnapTargets :
        /\ t # u
        /\ seen[t] # <<>> /\ seen[u] # <<>>
        /\ \E f, g \in Recorded(t) : disk[f].kind = "file" /\ disk[g].kind = "dir"
        /\ Clean(t)
        /\ thash[u] # seen[u][1].thash
        /\ IsTargetDirty(u).dirty

\* Every target of the package has a stored snapshot.
AllStored == \A t \in SnapTargets : store[t].exists

\* The first half of C17: right after one byte of a file has changed in a
\* state where every target was stored and clean, a target is dirty exactly
\* if its snapshot records the file.
C17_FlipDirties ==
    lastop.op = "flip" /\ lastop.clean /\ AllStored =>
        \A t \in SnapTargets :
            /\ IsTargetDirty(t).err = Nil
            /\ IsTargetDirty(t).dirty <=> lastop.file \in Recorded(t)

\* The second half of C17: the plan that follows has a node for exactly the
\* targets whose snapshot records the file and the targets that depend on
\* them.
C17_FlipPlans ==
    lastop.op = "plan" /\ lastop.clean /\ AllStored =>
        LET hit == { t \in SnapTargets : lastop.file \in Recorded(t) }
        IN  PlannedTargets = hit \cup { a \in SnapTargets : DependsOn(a) \cap hit # {} }

\* C17 as claimed: both halves.
C17_FlipDirtiesAndPlans == C17_FlipDirties /\ C17_FlipPlans

\* C18 as claimed: right after only the mtime of a regular file has changed
\* in a state where all stored targets were clean, they still are.
C18_TouchKeepsClean ==
    lastop.op = "touch" /\ lastop.clean => AllClean

\* C20 as claimed: the file of a target's snapshot is absent or holds a
\* complete record: never an empty one, one that lacks fields or one that
\* ends inside a field.
C20_AtomicSignature ==
    \A t \in SnapTargets :
        store[t].exists =>
            /\ ~store[t].torn
            /\ Len(store[t].buf) >= 2
            /\ store[t].buf[1] = t

(***************************************************************************)
(* Properties of the 9p FileSystem.                                        *)
(***************************************************************************)
\* The step serves a request that was issued through the path of root x.
ServedThrough(x) ==
    /\ lastreq'.count # lastreq.count
    /\ x \in DOMAIN fsroots
    /\ lastreq'.via = x

\* The project-relative path of the request that the step serves.
Accessed == TrimPrefix(lastreq'.path, FsPath)

\* C21: a file operation issued through the path of root x adds nothing but
\* the accessed project-relative path, and only to the readset or writeset of
\* x; the sets of every other root stay as they are.
C21_RootsIndependent ==
    [][\A x \in DOMAIN fsroots :
          ServedThrough(x) =>
              /\ \A y \in DOMAIN fsroots \ {x} : fsroots'[y] = fsroots[y]
              /\ fsroots'[x].readset \subseteq fsroots[x].readset \cup {Accessed}
              /\ fsroots'[x].writeset \subseteq fsroots[x].writeset \cup {Accessed}]_vars

\* Two roots have each recorded a read or a write, the last one through the
\* path of one of them, and their sets differ.
C21_Witness ==
    \E x, y \in DOMAIN fsroots :
        /\ x # y
        /\ lastreq.via = x
        /\ lastreq.op \in {"open", "create", "read", "write", "remove", "wstat", "rename"}
        /\ TrimPrefix(lastreq.path, FsPath) \in fsroots[x].readset \cup fsroots[x].writeset
        /\ fsroots[y].readset \cup fsroots[y].writeset # {}
        /\ fsroots[x] # fsroots[y]

\* C22: when a file has been opened through a root for reading or for
\* reading and writing, its project-relative path is in the readset of the
\* root, whether or not it is read afterwards.
C22_OpenRecordsRead ==
    [][\A x \in DOMAIN fsroots :
          ServedThrough(x) /\ lastreq'.op = "open" /\ lastreq'.mode \in {OREAD, ORDWR}
              => Accessed \in fsroots'[x].readset]_vars

\* C23: when a file or directory has been created, written, removed, renamed
\* or had its mode, owner, length or times set through a root, its
\* project-relative path is in the writeset of the root, and so is the path
\* it has been renamed to.
C23_ChangeRecordsWrite ==
    [][\A x \in DOMAIN fsroots :
          ServedThrough(x) /\ lastreq'.op \in {"create", "write", "remove", "wstat", "rename"}
              => /\ Accessed \in fsroots'[x].writeset
                 /\ lastreq'.op = "rename" =>
                       TrimPrefix(lastreq'.dest, FsPath) \in fsroots'[x].writeset]_vars

(***************************************************************************)
(* Properties of the output streams.                                       *)
(***************************************************************************)
\* C24: when the consumer starts to drain Stdout() and Stderr() only after
\* Wait has returned, the build of the command still completes and the
\* consumer receives every byte the process has produced.
C24_DrainAfterWait ==
    drain = "after wait" =>
        <>(/\ Wait(NodeOf(Runner))
           /\ \A s \in Streams : sink[s] = proc.total[s])

(***************************************************************************)
(* Properties of the Build node.                                           *)
(***************************************************************************)
\* C25: a call of Done on a build whose done channel is closed panics and
\* leaves the err of the build as the first call has stored it.
C25_SecondDoneKeepsErr ==
    [][\A k \in Nodes :
          Wait(k) /\ done'[k] # done[k] => panicked' /\ err'[k] = err[k]]_vars

(***************************************************************************)
(* Properties of Package.Target, the resolution of inputs and ParseLabel.  *)
(***************************************************************************)
\* The first element of a non-empty set of numbers, else 0.
FirstOf(S) == IF S = {} THEN 0 ELSE CHOOSE i \in S : \A j \in S : i <= j

\* The outputs of target t of the package.
OutputsOf(t) == { pkg[t].Outputs[j] : j \in 1..Len(pkg[t].Outputs) }

\* C26: Package.Target returns the first target with the given name when
\* there is one, whatever the outputs of the targets before it; else the first
\* target with the name among its outputs; else nil.
C26_NameBeforeOutput ==
    ret # <<>> =>
        LET named == { i \in 1..Len(pkg) : pkg[i].Name = arg }
            makers == { i \in 1..Len(pkg) : arg \in OutputsOf(i) }
        IN  ret[1] = IF named # {} THEN FirstOf(named) ELSE FirstOf(makers)

\* The targets that input i of target t names, by name or by output.
NamedBy(t, i) ==
    { u \in 1..Len(pkg) : pkg[u].Name = pkg[t].Inputs[i] \/ pkg[t].Inputs[i] \in OutputsOf(u) }

\* C27: in the graph Plan returned, the node of a target has among its
\* dependencies the node of every planned target that declares one of its
\* inputs as output; a requested target with such an input has a node; and
\* the node has one dependency per input that names a planned target, so an
\* input that is no target name and no output adds none.
C27_OutputResolves ==
    Planned =>
        /\ \A r \in 1..Len(requests) : \A t \in 1..Len(pkg) :
              /\ pkg[t].Name = requests[r]
              /\ \E i \in 1..Len(pkg[t].Inputs) : \E u \in PlannedTargets :
                    pkg[t].Inputs[i] \in OutputsOf(u)
              => t \in PlannedTargets
        /\ \A b \in PlanReach(plan[1].heap, plan[1].build) \ {plan[1].build} :
              LET t == plan[1].heap[b].target
                  deps == plan[1].heap[b].dependencies
              IN  /\ \A i \in 1..Len(pkg[t].Inputs) : \A u \in PlannedTargets :
                        pkg[t].Inputs[i] \in OutputsOf(u) =>
                            \E j \in 1..Len(deps) : plan[1].heap[deps[j]].target = u
                  /\ Len(deps) = Cardinality({ i \in 1..Len(pkg[t].Inputs) :
                                                 NamedBy(t, i) \cap PlannedTargets # {} })

\* C27 witness: a planned target lists an output of another planned target
\* and a file, and has the node of that target as its only dependency.
C27_Witness ==
    /\ Planned
    /\ \E b \in PlanReach(plan[1].heap, plan[1].build) \ {plan[1].build} :
        LET t == plan[1].heap[b].target
            deps == plan[1].heap[b].dependencies
        IN  /\ \E i, f \in 1..Len(pkg[t].Inputs) : \E u \in PlannedTargets \ {t} :
                  /\ pkg[t].Inputs[i] \in OutputsOf(u)
                  /\ NamedBy(t, f) = {}
                  /\ deps = << CHOOSE x \in 1..Len(plan[1].heap) : plan[1].heap[x].target = u >>

\* The text of s before its first colon and the text after it; without a
\* colon the text before is empty and the text after is s.
SplitAtFirstColon(s) ==
    LET colons == { k \in 1..Len(s) : s[k] = ":" } IN
    IF colons = {} THEN [Package |-> <<>>, Target |-> s]
    ELSE [Package |-> SubSeq(s, 1, FirstOf(colons) - 1),
          Target |-> SubSeq(s, FirstOf(colons) + 1, Len(s))]

\* C28: ParseLabel splits every string at its first colon.
C28_SplitsAtFirstColon ==
    ret # <<>> => ~ret[1].panic /\ ret[1].label = SplitAtFirstColon(arg)

(***************************************************************************)
(* Properties of the Snapshot: missing inputs and directories.             *)
(***************************************************************************)
\* AddTarget has returned for target t, and every input path of the call was
\* missing when it looked.
AddedWithAllMissing(t) ==
    /\ seen[t] # <<>>
    /\ DOMAIN seen[t][1].disk # {}
    /\ \A f \in DOMAIN seen[t][1].disk : seen[t][1].disk[f].kind = "none"

\* C29: a target without a stored snapshot is dirty; when AddTarget has
\* returned for a target all of whose input paths were missing, the stored
\* snapshot records none of them, and IsTargetDirty returns false without
\* error for as long as the commands and inputs of the target are as
\* AddTarget found them.
C29_MissingInputsDropped ==
    \A t \in SnapTargets :
        /\ ~store[t].exists => IsTargetDirty(t) = [dirty |-> TRUE, err |-> Nil]
        /\ AddedWithAllMissing(t) =>
              /\ Recorded(t) = {}
              /\ thash[t] = seen[t][1].thash => Clean(t)

\* C29 witness: AddTarget has returned for a target whose one input path
\* was missing; the path is still missing, the target is clean, and another
\* target has no snapshot yet.
C29_Witness ==
    \E t, u \in SnapTargets :
        /\ AddedWithAllMissing(t)
        /\ \A f \in DOMAIN seen[t][1].disk : disk[f].kind = "none"
        /\ Clean(t)
        /\ ~store[u].exists

\* C30: when a clean target records a directory, a step that adds an entry to
\* the directory or removes one makes the target dirty, and a step that
\* changes only the directory's own mtime or the bytes, size or mtime of its
\* entries leaves the target clean.
C30_DirectoryByNames ==
    [][\A t \in SnapTargets : \A f \in SnapFiles :
          /\ seen[t] # <<>>
          /\ Clean(t)
          /\ f \in Recorded(t)
          /\ disk[f].kind = "dir"
          /\ disk'[f] # disk[f]
          /\ disk'[f].kind = "dir"
          => IF disk'[f].names # disk[f].names
             THEN IsTargetDirty(t)' = [dirty |-> TRUE, err |-> Nil]
             ELSE Clean(t)']_vars

\* C30 witness: a target records a directory whose own mtime, or whose
\* entries' bytes, have changed since AddTarget looked, and the target is
\* clean.
C30_Witness ==
    \E t \in SnapTargets : \E f \in SnapFiles :
        /\ seen[t] # <<>>
        /\ f \in Recorded(t)
        /\ seen[t][1].disk[f].kind = "dir"
        /\ disk[f].kind = "dir"
        /\ disk[f].names = seen[t][1].disk[f].names
        /\ disk[f] # seen[t][1].disk[f]
        /\ Clean(t)

(***************************************************************************)
(* Properties of hashTarget.                                               *)
(***************************************************************************)
\* C31: a target with a single exec command and a target with the same
\* declared inputs and a single shell command never have the same hash, in
\* particular not exec with the arguments "shell", x and shell with source x.
C31_ExecNotShell ==
    ret # <<>> => ret[1] # ret[2]

\* C31 witness: the hashes of exec "shell" x and of shell x, with the same
\* declared input, have been computed.
C31_Witness ==
    /\ ret # <<>>
    /\ arg[1].Dependencies # <<>>
    /\ arg[1].Commands = <<ExecCommand(<<"shell", "x">>)>>
    /\ arg[2].Commands = <<ShellCommand("x")>>

\* C33: two targets whose declared inputs or commands differ in any way
\* never have the same hash, so that the changed target is dirty.
C33_HashInjective ==
    ret # <<>> /\ arg[1] # arg[2] => ret[1] # ret[2]

(***************************************************************************)
(* Properties of Planner.Plan: requested targets the package lacks.        *)
(***************************************************************************)
\* A requested name that Package.Target does not find.
UnknownRequest == \E r \in 1..Len(requests) : Target(pkg, requests[r]) = 0

\* C32: when one of the requested names resolves to no target of the
\* package, Plan returns the target-not-found error and no build, wherever
\* the name stands in the list and whatever the other names are.
C32_UnknownTargetFails ==
    plan # <<>> /\ UnknownRequest =>
        plan[1].err = ErrTargetNotFound /\ plan[1].build = 0

\* Except for a stack overflow, C32 holds.
C32_ButForOverflow ==
    plan # <<>> /\ UnknownRequest /\ plan[1].err # StackOverflow =>
        plan[1].err = ErrTargetNotFound /\ plan[1].build = 0

(***************************************************************************)
(* Properties of the Builder: builds past their dependencies, the error    *)
(* of the run, and termination.                                            *)
(***************************************************************************)
\* The goroutine was granted its build, buildEach returned nil to it and it
\* has begun to execute the target of the build.
Committed(w) == reserved[w] = "granted" /\ roots[w].created

\* How a build whose execution has begun has ended: with the error of the
\* first command that failed, else with the error of AddTarget, else with
\* nil and a stored snapshot; never with ErrCanceled or ErrDependency.
EndedByItsOwnResult(k) ==
    /\ err[k] \in {Nil, CmdErr, SnapErr}
    /\ err[k] = CmdErr <=> CommandFailed(k)
    /\ err[k] # CmdErr => CommandsSucceeded(k) /\ Len(snaplog[k]) = 1
    /\ err[k] = Nil <=> CommandsSucceeded(k) /\ store[k].exists

\* C34: a build that has passed the wait for its dependencies is not ended
\* by the closing channel or by the failure of another build: it ends with
\* the result of its own commands and snapshot, nil and a stored snapshot
\* when they succeed, and it does end.
C34_CommittedPeerFinishes ==
    /\ [](\A w \in Workers : Committed(w) /\ Wait(NodeOf(w)) => EndedByItsOwnResult(NodeOf(w)))
    /\ <>[](\A w \in Workers : Committed(w) => Wait(NodeOf(w)))

\* C34 witness: the closing channel is closed and another build has failed,
\* and a build that had a command running by then has since ended with nil
\* and a stored snapshot.
C34_Witness ==
    /\ closing
    /\ \E w \in Workers : \E j \in Nodes :
        LET k == NodeOf(w) IN
        /\ Committed(w)
        /\ j # k /\ err[j] = CmdErr
        /\ k \notin Reach(dependencies, j) /\ j \notin Reach(dependencies, k)
        /\ commands[k] >= 1
        /\ Wait(k) /\ err[k] = Nil /\ store[k].exists
        /\ \E a \in Nodes : k \in Reach(dependencies, a) /\ err[a] = ErrCanceled

\* C35: once b.build has returned for the top-level build, RootErr of it is
\* nil exactly if its err is nil; when the err is not nil, RootErr is the
\* error of a command or of a snapshot that a reachable build ended with, and
\* when it is nil no reachable build has an error.
C35_RootErrIffFailed ==
    Wait(Top) =>
        /\ RootErr(Top) # Nil <=> err[Top] # Nil
        /\ err[Top] # Nil =>
              /\ RootErr(Top) \in {CmdErr, SnapErr}
              /\ \E k \in Reach(dependencies, Top) : Wait(k) /\ err[k] = RootErr(Top)
        /\ err[Top] = Nil => \A k \in Reach(dependencies, Top) : Wait(k) /\ err[k] = Nil

\* C35 witness: Build has returned; the top-level build has ErrDependency,
\* the build below it too, and RootErr finds the error of a command two
\* levels down, while another build was canceled.
C35_Witness ==
    /\ pc[Main] = "returned"
    /\ err[Top] = ErrDependency
    /\ RootErr(Top) = CmdErr
    /\ \A i \in 1..Len(dependencies[Top]) : err[dependencies[Top][i]] # CmdErr
    /\ \E k \in Nodes : err[k] = ErrCanceled

\* C36: when every command and every snapshot write returns and the
\* scheduler is fair, every build reachable from the top-level build is
\* eventually done, and stays so.
C36_EveryBuildEnds ==
    <>[](\A k \in Reach(dependencies, Top) : Wait(k))

\* C36 witness: a build was canceled, and the closing channel closed, while a
\* dependency of it is still not done.
C36_Witness ==
    /\ closing
    /\ \E a \in Nodes : \E i \in 1..Len(dependencies[a]) :
        /\ Wait(a) /\ err[a] = ErrCanceled
        /\ ~Wait(dependencies[a][i])

\* C37: a build gets ErrCanceled only when the closing channel is closed;
\* the top-level build never has ErrCanceled; and as long as no command and
\* no snapshot write has failed, no build has ErrCanceled or ErrDependency.
C37_CanceledOnlyAfterClose ==
    /\ [](/\ \A k \in Nodes : err[k] = ErrCanceled => closing
          /\ err[Top] # ErrCanceled
          /\ (\A k \in Nodes : err[k] \notin {CmdErr, SnapErr}) =>
                \A k \in Nodes : err[k] = Nil)
    /\ [][\A k \in Nodes : err'[k] = ErrCanceled /\ err[k] # ErrCanceled => closing]_vars

\* C37 witness: Build has returned after a run in which a command failed; a
\* build has ErrCanceled and the top-level build has ErrDependency.
C37_Witness ==
    /\ pc[Main] = "returned"
    /\ closing
    /\ err[Top] = ErrDependency
    /\ \E k \in Nodes : err[k] = ErrCanceled
    /\ \E k \in Nodes : err[k] = CmdErr

(***************************************************************************)
(* Properties of the snapshot a build records.                             *)
(***************************************************************************)
\* The content hash of a file as a command found it.
ContentRead(file) == <<"bytes", file.size, file.content>>

\* C38: when Build has returned and a target is not dirty, the content hash
\* its snapshot records for a file is the hash of the bytes that the command
\* of the target read from that file, also when another target of the same
\* build writes the file.
C38_RecordedIsWhatWasRead ==
    RunFinished =>
        \A k \in Reach(dependencies, Top) \ {Top} :
            Wait(k) /\ Clean(k) =>
                \A i \in 1..Len(readTarget(k).ts.inputs) : \A j \in 1..Len(cmdlog[k]) :
                    readTarget(k).ts.inputs[i].name = FileOf(k, cmdlog[k][j].cmd) =>
                        readTarget(k).ts.inputs[i].content = ContentRead(cmdlog[k][j].saw[1])

\* readTarget returns for the name the snapshot that AddTarget recorded.
Readable(st, name) ==
    seen[name] # <<>> /\ readTargetFile(st, name) = [err |-> Nil, ts |-> seen[name][1]]

\* C39: every call of AddTarget returns nil, and a snapshot recorded for
\* another target name is read back after the call as it was before; also
\* for names of which one is a path prefix of the other, in either order.
C39_StoredIndependently ==
    [][used' # used =>
          /\ ret'[1].err = Nil
          /\ \A other \in StoreNames \ {ret'[1].name} :
                Readable(store, other) => Readable(store', other)]_vars

\* C40: with a Builder that has no Snapshot, no goroutine crashes, and a
\* build whose commands have all succeeded is done with a nil err once its
\* goroutine has left the snapshot step.
C40_DoneWithoutSnapshot ==
    /\ ~panicked
    /\ \A w \in Workers :
          /\ Committed(w)
          /\ CommandsSucceeded(NodeOf(w))
          /\ pc[w] \notin {"running", "snapshot"}
          => Wait(NodeOf(w)) /\ err[NodeOf(w)] = Nil

====
